---- MODULE Spec2Model ----
(***************************************************************************)
(* A model of the decorator stores and of the declarative builder of the   *)
(* storage package (storage/object.py, storage/utils.py,                   *)
(* storage/config_builder.py).                                             *)
(*                                                                         *)
(* A store is a record whose field cls names its class.  Every store       *)
(* operation is an operator that returns the outcome of the call: the      *)
(* store as the call leaves it, the exception that escapes (NoExc when the *)
(* call returns normally) and the value returned.  Decorators over several *)
(* children also return the list of child calls they made, in order.       *)
(***************************************************************************)
EXTENDS Integers, Sequences, FiniteSets, TLC

VARIABLES
    children,      \* MirroringStore.children: a sequence of stores
    main_store,    \* CachingStore.main_store
    cache_store,   \* CachingStore.cache_store
    last,          \* the outcome of the latest call
    stores,        \* StoreFactory.stores: the definitions of the config file
    built_stores,  \* StoreFactory.built_stores: the names build() has marked
    environ,       \* os.environ
    registry,      \* StoreFactory.STORES as registrations have left it
    notifying_store,  \* a NotifyingStore: its store and its handlers
    key_store,     \* a KeyTransformingStore over its child
    scoped,        \* an async store and whether its scope is entered
    decorator,     \* a store that fronts a backing store, and that store
    from_store,    \* copy_store, sync_stores: the store read
    to_store,      \* copy_store, sync_stores: the store written
    tasks          \* the coroutines in flight: call, position, locals, outcome

vars == <<children, main_store, cache_store, last, stores, built_stores,
          environ, registry, notifying_store, key_store, scoped,
          decorator, from_store, to_store, tasks>>

\* the variables of the wrappers, of the multi-store utility functions and
\* of the event loop
wrapper_vars == <<decorator, from_store, to_store, tasks>>

----------------------------------------------------------------------------
(* Keys and payloads.  The stores never inspect either. *)
Keys == {"k1", "k2"}
Data == {"v1", "v2"}

MaxChildren == 3

PyNone == "None"
\* An exception: its class, its message and the name the message carries.
Exc(type, msg, arg) == [type |-> type, msg |-> msg, arg |-> arg]
NoExc == Exc("none", "", "")
KeyError(key) == Exc("KeyError", "", key)
NotImplementedError(msg) == Exc("NotImplementedError", msg, "")
TypeError(arg) == Exc("TypeError", "", arg)
AttributeError(msg) == Exc("AttributeError", msg, "")
UnicodeDecodeError == Exc("UnicodeDecodeError", "", "")
BadGzipFile == Exc("BadGzipFile", "Not a gzipped file", "")

Outcome(store, exc, ret) == [store |-> store, exc |-> exc, ret |-> ret]

\* no object constructed
NoStore == [cls |-> "none"]

\* StoreFactory.STORES, by the parameters of each constructor: those it
\* requires and those it accepts.  A definition may carry a config mapping
\* (store_def.get('config', {})); its values hold no ${...} form.
STORES ==
    [DictStore         |-> [required |-> {}, accepted |-> {"objects"}],
     IdentityStore     |-> [required |-> {"store"}, accepted |-> {"store"}],
     MirroringStore    |-> [required |-> {"children"},
                            accepted |-> {"children"}],
     AsyncFanoutStore  |-> [required |-> {"children"},
                            accepted |-> {"children"}],
     CachingStore      |-> [required |-> {"main_store", "cache_store"},
                            accepted |-> {"main_store", "cache_store"}],
     AsyncCachingStore |-> [required |-> {"main_store", "cache_store"},
                            accepted |-> {"main_store", "cache_store"}]]

----------------------------------------------------------------------------
(* storage/object.py: DictStore.  objects is a dict: a function whose      *)
(* domain is the set of keys present.                                      *)

Dicts == UNION {[D -> Data] : D \in SUBSET Keys}

DictStore(objects) == [cls |-> "DictStore", objects |-> objects]

DictSet(objects, key, data) ==
    [k \in DOMAIN objects \cup {key} |-> IF k = key THEN data ELSE objects[k]]

DictDel(objects, key) == [k \in DOMAIN objects \ {key} |-> objects[k]]

\* dict.get(key): the value, or None when the key is absent
DictGetOrNone(objects, key) ==
    IF key \in DOMAIN objects THEN objects[key] ELSE PyNone

DictStore_get(self, key) ==
    LET bytes == DictGetOrNone(self.objects, key)
    IN  IF bytes = PyNone
        THEN Outcome(self, KeyError(key), PyNone)
        ELSE Outcome(self, NoExc, bytes)

\* a put that keeps the object a key already has (dict.setdefault)
DictStore_put_if_absent(self, key, data) ==
    IF key \in DOMAIN self.objects THEN Outcome(self, NoExc, PyNone)
    ELSE Outcome(DictStore(DictSet(self.objects, key, data)), NoExc, PyNone)

DictStore_put(self, key, data) ==
    Outcome(DictStore(DictSet(self.objects, key, data)), NoExc, PyNone)

DictStore_exists(self, key) ==
    Outcome(self, NoExc, key \in DOMAIN self.objects)

\* a delete that passes over an absent key
DictStore_delete_quiet(self, key) ==
    Outcome(DictStore(DictDel(self.objects, key)), NoExc, PyNone)

DictStore_delete(self, key) ==
    IF key \in DOMAIN self.objects
    THEN Outcome(DictStore(DictDel(self.objects, key)), NoExc, PyNone)
    ELSE Outcome(self, KeyError(key), PyNone)

DictStore_keys(self) == Outcome(self, NoExc, DOMAIN self.objects)

----------------------------------------------------------------------------
(* storage/utils.py: the stores that front one backing store.  The store  *)
(* below is reached by dispatch on its class, so the wrappers nest.  A     *)
(* logger is the caller's object: what LoggingStore and                    *)
(* ExceptionLoggingStore write to it is not part of the outcome.           *)

IdentityStore(store) == [cls |-> "IdentityStore", store |-> store]
ReadonlyStore(store) == [cls |-> "ReadonlyStore", store |-> store]
WriteonlyStore(store) == [cls |-> "WriteonlyStore", store |-> store]
LoggingStore(store) == [cls |-> "LoggingStore", store |-> store]

ExceptionLoggingStore(store) ==
    [cls |-> "ExceptionLoggingStore", store |-> store]

TransformingStore(store) == [cls |-> "TransformingStore", store |-> store]
TextEncodingStore(store) == [cls |-> "TextEncodingStore", store |-> store]
GzipStore(store) == [cls |-> "GzipStore", store |-> store]

TransformingClasses == {"TransformingStore", "TextEncodingStore", "GzipStore"}

(* storage/fs.py: HashdirStore, and storage/aiofs.py: AsyncHashdirStore.   *)
(* An object is kept in the file at hashpath(key), a path that depends on  *)
(* nothing but the key, so put, get, exists and delete reach the same file *)
(* for the same key: store is the directory, listed here by key.  The path *)
(* cannot be turned back into the key and keys() refuses (the concurrent   *)
(* twin raises the same exception, with a message).                        *)
HashdirStore(store) == [cls |-> "HashdirStore", store |-> store]

HashdirStore_keys(self) == Outcome(self, NotImplementedError(""), PyNone)

RECURSIVE Get(_, _)
RECURSIVE Put(_, _, _)
RECURSIVE Exists(_, _)
RECURSIVE Delete(_, _)
RECURSIVE StoreKeys(_)

\* the outcome of a delegated call, seen from the wrapper
Wrapped(self, r) == Outcome([self EXCEPT !.store = r.store], r.exc, r.ret)

\* the same, of a method that returns nothing
WrappedNone(self, r) ==
    Outcome([self EXCEPT !.store = r.store], r.exc, PyNone)

IdentityStore_put(self, key, data) ==
    WrappedNone(self, Put(self.store, key, data))

IdentityStore_get(self, key) == Wrapped(self, Get(self.store, key))

IdentityStore_exists(self, key) == Wrapped(self, Exists(self.store, key))

IdentityStore_delete(self, key) == Wrapped(self, Delete(self.store, key))

IdentityStore_keys(self) == Wrapped(self, StoreKeys(self.store))

\* a ReadonlyStore that hands the writes on to the store below
ReadonlyStore_put_delegated(self, key, data) ==
    IdentityStore_put(self, key, data)

ReadonlyStore_put(self, key, data) ==
    Outcome(self, NotImplementedError("store is read-only"), PyNone)

ReadonlyStore_delete(self, key) ==
    Outcome(self, NotImplementedError("store is read-only"), PyNone)

WriteonlyStore_get(self, key) ==
    Outcome(self, NotImplementedError("store is write-only"), PyNone)

WriteonlyStore_exists(self, key) ==
    Outcome(self, NotImplementedError("store is write-only"), PyNone)

WriteonlyStore_keys(self) ==
    Outcome(self, NotImplementedError("store is write-only"), PyNone)

LoggingStore_put(self, key, data) ==
    WrappedNone(self, Put(self.store, key, data))

LoggingStore_get(self, key) == Wrapped(self, Get(self.store, key))

LoggingStore_exists(self, key) == Wrapped(self, Exists(self.store, key))

LoggingStore_delete(self, key) == Wrapped(self, Delete(self.store, key))

LoggingStore_keys(self) == Wrapped(self, StoreKeys(self.store))

\* try: ... except Exception as e: log it and return default
Absorbed(r, default) ==
    IF r.exc = NoExc THEN r ELSE Outcome(r.store, NoExc, default)

\* an ExceptionLoggingStore whose get logs the error and raises it again
ExceptionLoggingStore_get_reraising(self, key) == LoggingStore_get(self, key)

ExceptionLoggingStore_put(self, key, data) ==
    Absorbed(LoggingStore_put(self, key, data), PyNone)

ExceptionLoggingStore_get(self, key) ==
    Absorbed(LoggingStore_get(self, key), PyNone)

ExceptionLoggingStore_exists(self, key) ==
    Absorbed(LoggingStore_exists(self, key), FALSE)

ExceptionLoggingStore_delete(self, key) ==
    Absorbed(LoggingStore_delete(self, key), FALSE)

ExceptionLoggingStore_keys(self) ==
    Absorbed(LoggingStore_keys(self), <<>>)

----------------------------------------------------------------------------
(* storage/utils.py: TransformingStore and its subclasses.  A payload is   *)
(* bytes or str.  Texts are the str payloads; every other payload is       *)
(* bytes.  Encoding and compression write their result around the payload  *)
(* they are given, and the reverse reads it back where it finds it.        *)

Texts == {"s1"}

\* str.str_encode(encoding)
str_encode(data) == data \o ".str_encode()"

\* gzip.gzip_compress(data)
gzip_compress(data) == "gzip(" \o data \o ")"

\* the bytes payloads that are no gzip member
Uncompressed == Data \cup {str_encode(s) : s \in Texts}

\* the bytes payloads gzip.decompress can be handed
Gzipped == {gzip_compress(b) : b \in Uncompressed}
               \cup {gzip_compress(gzip_compress(b)) : b \in Uncompressed}

\* the result of a transform: the exception it raises, or what it returns
TData(exc, ret) == [exc |-> exc, ret |-> ret]

TransformingStore_transform(self, data) == TData(NoExc, data)

TransformingStore_reverse_transform(self, data) == TData(NoExc, data)

\* data.str_encode(self.encoding)
TextEncodingStore_transform(self, data) ==
    IF data \in Texts THEN TData(NoExc, str_encode(data))
    ELSE TData(AttributeError("encode"), PyNone)

\* data.decode(self.encoding): a gzip member is not text in any encoding
TextEncodingStore_reverse_transform(self, data) ==
    IF data \in Texts \/ data = PyNone
    THEN TData(AttributeError("decode"), PyNone)
    ELSE IF \E s \in Texts : str_encode(s) = data
    THEN TData(NoExc, CHOOSE s \in Texts : str_encode(s) = data)
    ELSE TData(UnicodeDecodeError, PyNone)

GzipStore_transform(self, data) ==
    IF data \in Texts \/ data = PyNone THEN TData(TypeError("data"), PyNone)
    ELSE TData(NoExc, gzip_compress(data))

GzipStore_reverse_transform(self, data) ==
    IF data \in Texts \/ data = PyNone THEN TData(TypeError("data"), PyNone)
    ELSE IF data \in Gzipped
    THEN TData(NoExc, CHOOSE b \in Uncompressed \cup Gzipped :
                          gzip_compress(b) = data)
    ELSE TData(BadGzipFile, PyNone)

\* self.transform(data) and self.reverse_transform(data), by class
transform(self, data) ==
    IF self.cls = "TextEncodingStore"
    THEN TextEncodingStore_transform(self, data)
    ELSE IF self.cls = "GzipStore" THEN GzipStore_transform(self, data)
    ELSE TransformingStore_transform(self, data)

reverse_transform(self, data) ==
    IF self.cls = "TextEncodingStore"
    THEN TextEncodingStore_reverse_transform(self, data)
    ELSE IF self.cls = "GzipStore"
    THEN GzipStore_reverse_transform(self, data)
    ELSE TransformingStore_reverse_transform(self, data)

\* a put that hands the payload to the store below as it is
TransformingStore_put_untransformed(self, key, data) ==
    WrappedNone(self, Put(self.store, key, data))

TransformingStore_put(self, key, data) ==
    LET t == transform(self, data)
    IN  IF t.exc # NoExc THEN Outcome(self, t.exc, PyNone)
        ELSE WrappedNone(self, Put(self.store, key, t.ret))

TransformingStore_get(self, key) ==
    LET r == Wrapped(self, Get(self.store, key))
        t == reverse_transform(self, r.ret)
    IN  IF r.exc # NoExc THEN r
        ELSE Outcome(r.store, t.exc, t.ret)

TransformingStore_exists(self, key) ==
    Wrapped(self, Exists(self.store, key))

TransformingStore_delete(self, key) ==
    Wrapped(self, Delete(self.store, key))

TransformingStore_keys(self) == Wrapped(self, StoreKeys(self.store))

----------------------------------------------------------------------------------
(* tests/test_aioutils.py: AsyncDictStore, the in-memory store of the      *)
(* async flavour.  An awaited call is the call.                            *)

AsyncDictStore(_data) == [cls |-> "AsyncDictStore", objects |-> _data]

AsyncDictStore_put(self, key, data) ==
    Outcome(AsyncDictStore(DictSet(self.objects, key, data)), NoExc, PyNone)

AsyncDictStore_get(self, key) ==
    IF key \notin DOMAIN self.objects
    THEN Outcome(self, KeyError(key), PyNone)
    ELSE Outcome(self, NoExc, self.objects[key])

AsyncDictStore_exists(self, key) ==
    Outcome(self, NoExc, key \in DOMAIN self.objects)

\* self._data.pop(key, None)
AsyncDictStore_delete(self, key) ==
    Outcome(AsyncDictStore(DictDel(self.objects, key)), NoExc, PyNone)

\* the generator, drained: it yields from a snapshot of the keys
AsyncDictStore_keys(self) == Outcome(self, NoExc, DOMAIN self.objects)

----------------------------------------------------------------------------
(* storage/aioutils.py: AsyncTransformingStore.  Its transformer is a      *)
(* DataTransformer of storage.utils: the identity pair, the text codec or  *)
(* gzip compression.  asyncio.to_thread runs the call in a worker thread   *)
(* and gives the awaiting coroutine what the call returned or raised.      *)

DataTransformers ==
    {"DataTransformer", "TextEncodingTransformer", "GzipTransformer"}

AsyncTransformingStore(store, transformer, sync_transform) ==
    [cls |-> "AsyncTransformingStore", store |-> store,
     transformer |-> transformer, sync_transform |-> sync_transform]

\* self.transformer.transform(data)
DataTransformer_transform(transformer, data) ==
    IF transformer = "TextEncodingTransformer"
    THEN TextEncodingStore_transform(transformer, data)
    ELSE IF transformer = "GzipTransformer"
    THEN GzipStore_transform(transformer, data)
    ELSE TData(NoExc, data)

\* self.transformer.reverse_transform(data)
DataTransformer_reverse_transform(transformer, data) ==
    IF transformer = "TextEncodingTransformer"
    THEN TextEncodingStore_reverse_transform(transformer, data)
    ELSE IF transformer = "GzipTransformer"
    THEN GzipStore_reverse_transform(transformer, data)
    ELSE TData(NoExc, data)

\* await asyncio.to_thread(func, data), func(data) having come to result
to_thread(result) == result

AsyncTransformingStore_put(self, key, data) ==
    LET transformed_data ==
            IF self.sync_transform
            THEN DataTransformer_transform(self.transformer, data)
            ELSE to_thread(DataTransformer_transform(self.transformer, data))
    IN  IF transformed_data.exc # NoExc
        THEN Outcome(self, transformed_data.exc, PyNone)
        ELSE WrappedNone(self, Put(self.store, key, transformed_data.ret))

AsyncTransformingStore_get(self, key) ==
    LET r == Wrapped(self, Get(self.store, key))
        t == IF self.sync_transform
             THEN DataTransformer_reverse_transform(self.transformer, r.ret)
             ELSE to_thread(DataTransformer_reverse_transform(
                                self.transformer, r.ret))
    IN  IF r.exc # NoExc THEN r
        ELSE Outcome(r.store, t.exc, t.ret)

AsyncTransformingStore_exists(self, key) ==
    Wrapped(self, Exists(self.store, key))

AsyncTransformingStore_delete(self, key) ==
    Wrapped(self, Delete(self.store, key))

\* the generator, drained
AsyncTransformingStore_keys(self) == Wrapped(self, StoreKeys(self.store))

----------------------------------------------------------------------
(* Method dispatch on the class of the receiver. *)

Get(s, key) ==
    IF s.cls = "DictStore" THEN DictStore_get(s, key)
    ELSE IF s.cls = "AsyncDictStore" THEN AsyncDictStore_get(s, key)
    ELSE IF s.cls = "AsyncTransformingStore"
    THEN AsyncTransformingStore_get(s, key)
    ELSE IF s.cls = "WriteonlyStore" THEN WriteonlyStore_get(s, key)
    ELSE IF s.cls = "LoggingStore" THEN LoggingStore_get(s, key)
    ELSE IF s.cls = "ExceptionLoggingStore"
    THEN ExceptionLoggingStore_get(s, key)
    ELSE IF s.cls \in TransformingClasses THEN TransformingStore_get(s, key)
    ELSE IdentityStore_get(s, key)

Put(s, key, data) ==
    IF s.cls = "DictStore" THEN DictStore_put(s, key, data)
    ELSE IF s.cls = "AsyncDictStore" THEN AsyncDictStore_put(s, key, data)
    ELSE IF s.cls = "AsyncTransformingStore"
    THEN AsyncTransformingStore_put(s, key, data)
    ELSE IF s.cls = "ReadonlyStore" THEN ReadonlyStore_put(s, key, data)
    ELSE IF s.cls = "LoggingStore" THEN LoggingStore_put(s, key, data)
    ELSE IF s.cls = "ExceptionLoggingStore"
    THEN ExceptionLoggingStore_put(s, key, data)
    ELSE IF s.cls \in TransformingClasses
    THEN TransformingStore_put(s, key, data)
    ELSE IdentityStore_put(s, key, data)

Exists(s, key) ==
    IF s.cls = "DictStore" THEN DictStore_exists(s, key)
    ELSE IF s.cls = "AsyncDictStore" THEN AsyncDictStore_exists(s, key)
    ELSE IF s.cls = "AsyncTransformingStore"
    THEN AsyncTransformingStore_exists(s, key)
    ELSE IF s.cls = "WriteonlyStore" THEN WriteonlyStore_exists(s, key)
    ELSE IF s.cls = "LoggingStore" THEN LoggingStore_exists(s, key)
    ELSE IF s.cls = "ExceptionLoggingStore"
    THEN ExceptionLoggingStore_exists(s, key)
    ELSE IF s.cls \in TransformingClasses
    THEN TransformingStore_exists(s, key)
    ELSE IdentityStore_exists(s, key)

Delete(s, key) ==
    IF s.cls = "DictStore" THEN DictStore_delete(s, key)
    ELSE IF s.cls = "AsyncDictStore" THEN AsyncDictStore_delete(s, key)
    ELSE IF s.cls = "AsyncTransformingStore"
    THEN AsyncTransformingStore_delete(s, key)
    ELSE IF s.cls = "ReadonlyStore" THEN ReadonlyStore_delete(s, key)
    ELSE IF s.cls = "LoggingStore" THEN LoggingStore_delete(s, key)
    ELSE IF s.cls = "ExceptionLoggingStore"
    THEN ExceptionLoggingStore_delete(s, key)
    ELSE IF s.cls \in TransformingClasses
    THEN TransformingStore_delete(s, key)
    ELSE IdentityStore_delete(s, key)

StoreKeys(s) ==
    IF s.cls = "DictStore" THEN DictStore_keys(s)
    ELSE IF s.cls = "AsyncDictStore" THEN AsyncDictStore_keys(s)
    ELSE IF s.cls = "AsyncTransformingStore"
    THEN AsyncTransformingStore_keys(s)
    ELSE IF s.cls = "WriteonlyStore" THEN WriteonlyStore_keys(s)
    ELSE IF s.cls = "HashdirStore" THEN HashdirStore_keys(s)
    ELSE IF s.cls = "LoggingStore" THEN LoggingStore_keys(s)
    ELSE IF s.cls = "ExceptionLoggingStore"
    THEN ExceptionLoggingStore_keys(s)
    ELSE IF s.cls \in TransformingClasses THEN TransformingStore_keys(s)
    ELSE IdentityStore_keys(s)

\* the dict at the bottom of a store, for stating properties
Contents(s) ==
    IF s.cls \in {"DictStore", "AsyncDictStore"} THEN s.objects
    ELSE s.store.objects

Holds(s, key) == key \in DOMAIN Contents(s)

ChildStores ==
    {DictStore(d) : d \in Dicts} \cup {ReadonlyStore(DictStore(d)) : d \in Dicts}

----------------------------------------------------------------------------
(* storage/utils.py: MirroringStore.  children[i] here is children[i-1]    *)
(* there.  calls lists the child calls made, as <<child, method>>.          *)

MOutcome(ch, exc, ret, calls) ==
    [children |-> ch, exc |-> exc, ret |-> ret, calls |-> calls]

SetChild(ch, i, r) == [ch EXCEPT ![i] = r.store]

RECURSIVE put_loop(_, _, _, _, _)
put_loop(ch, i, key, data, calls) ==
    IF i > Len(ch)
    THEN MOutcome(ch, NoExc, PyNone, calls)
    ELSE LET r == Put(ch[i], key, data)
             calls2 == Append(calls, <<i, "put">>)
         IN  IF r.exc # NoExc
             THEN MOutcome(SetChild(ch, i, r), r.exc, PyNone, calls2)
             ELSE put_loop(SetChild(ch, i, r), i + 1, key, data, calls2)

\* a put that carries on with the next child after one has raised
RECURSIVE put_loop_best_effort(_, _, _, _, _, _)
put_loop_best_effort(ch, i, key, data, calls, exc) ==
    IF i > Len(ch)
    THEN MOutcome(ch, exc, PyNone, calls)
    ELSE LET r == Put(ch[i], key, data)
         IN  put_loop_best_effort(SetChild(ch, i, r), i + 1, key, data,
                                  Append(calls, <<i, "put">>),
                                  IF exc = NoExc THEN r.exc ELSE exc)

MirroringStore_put_best_effort(self_children, key, data) ==
    put_loop_best_effort(self_children, 1, key, data, <<>>, NoExc)

\* a put that writes the first child only
MirroringStore_put_first_only(self_children, key, data) ==
    IF Len(self_children) = 0
    THEN MOutcome(self_children, NoExc, PyNone, <<>>)
    ELSE LET r == Put(self_children[1], key, data)
         IN  MOutcome(SetChild(self_children, 1, r), r.exc, PyNone,
                      << <<1, "put">> >>)

MirroringStore_put(self_children, key, data) ==
    put_loop(self_children, 1, key, data, <<>>)

RECURSIVE get_loop(_, _, _, _)
get_loop(ch, i, key, calls) ==
    IF i > Len(ch)
    THEN MOutcome(ch, KeyError(key), PyNone, calls)
    ELSE LET e == Exists(ch[i], key)
             calls2 == Append(calls, <<i, "exists">>)
         IN  IF e.exc # NoExc
             THEN MOutcome(SetChild(ch, i, e), e.exc, PyNone, calls2)
             ELSE IF e.ret
             THEN LET g == Get(e.store, key)
                  IN  MOutcome(SetChild(ch, i, g), g.exc, g.ret,
                               Append(calls2, <<i, "get">>))
             ELSE get_loop(SetChild(ch, i, e), i + 1, key, calls2)

\* a get that answers from the last child holding the key
MirroringStore_get_last_holder(self_children, key) ==
    LET holders == {i \in DOMAIN self_children :
                       Exists(self_children[i], key).ret = TRUE}
        top == CHOOSE i \in holders : \A j \in holders : j <= i
    IN  IF holders = {}
        THEN get_loop(self_children, 1, key, <<>>)
        ELSE MOutcome(self_children, NoExc, Get(self_children[top], key).ret,
                      << <<top, "exists">>, <<top, "get">> >>)

MirroringStore_get(self_children, key) == get_loop(self_children, 1, key, <<>>)

RECURSIVE exists_loop(_, _, _, _)
exists_loop(ch, i, key, calls) ==
    IF i > Len(ch)
    THEN MOutcome(ch, NoExc, FALSE, calls)
    ELSE LET e == Exists(ch[i], key)
             calls2 == Append(calls, <<i, "exists">>)
         IN  IF e.exc # NoExc
             THEN MOutcome(SetChild(ch, i, e), e.exc, PyNone, calls2)
             ELSE IF e.ret
             THEN MOutcome(SetChild(ch, i, e), NoExc, TRUE, calls2)
             ELSE exists_loop(SetChild(ch, i, e), i + 1, key, calls2)

MirroringStore_exists(self_children, key) ==
    exists_loop(self_children, 1, key, <<>>)

RECURSIVE delete_loop(_, _, _, _)
delete_loop(ch, i, key, calls) ==
    IF i > Len(ch)
    THEN MOutcome(ch, NoExc, PyNone, calls)
    ELSE LET e == Exists(ch[i], key)
             calls2 == Append(calls, <<i, "exists">>)
         IN  IF e.exc # NoExc
             THEN MOutcome(SetChild(ch, i, e), e.exc, PyNone, calls2)
             ELSE IF e.ret
             THEN LET d == Delete(e.store, key)
                      calls3 == Append(calls2, <<i, "delete">>)
                  IN  IF d.exc # NoExc
                      THEN MOutcome(SetChild(ch, i, d), d.exc, PyNone, calls3)
                      ELSE delete_loop(SetChild(ch, i, d), i + 1, key, calls3)
             ELSE delete_loop(SetChild(ch, i, e), i + 1, key, calls2)

\* a delete that asks every child to delete, present or not
RECURSIVE delete_loop_unguarded(_, _, _, _)
delete_loop_unguarded(ch, i, key, calls) ==
    IF i > Len(ch)
    THEN MOutcome(ch, NoExc, PyNone, calls)
    ELSE LET d == Delete(ch[i], key)
             calls2 == Append(calls, <<i, "delete">>)
         IN  IF d.exc # NoExc
             THEN MOutcome(SetChild(ch, i, d), d.exc, PyNone, calls2)
             ELSE delete_loop_unguarded(SetChild(ch, i, d), i + 1, key, calls2)

MirroringStore_delete_unguarded(self_children, key) ==
    delete_loop_unguarded(self_children, 1, key, <<>>)

MirroringStore_delete(self_children, key) ==
    delete_loop(self_children, 1, key, <<>>)

RECURSIVE keys_loop(_, _, _, _)
keys_loop(ch, i, keys, calls) ==
    IF i > Len(ch)
    THEN MOutcome(ch, NoExc, keys, calls)
    ELSE LET r == StoreKeys(ch[i])
             calls2 == Append(calls, <<i, "keys">>)
         IN  IF r.exc # NoExc
             THEN MOutcome(SetChild(ch, i, r), r.exc, PyNone, calls2)
             ELSE keys_loop(SetChild(ch, i, r), i + 1, keys \cup r.ret, calls2)

\* keys() that asks the first child only
MirroringStore_keys_first_child(self_children) ==
    IF self_children = <<>>
    THEN MOutcome(self_children, NoExc, {}, <<>>)
    ELSE LET r == StoreKeys(self_children[1])
         IN  MOutcome(SetChild(self_children, 1, r), r.exc, r.ret,
                      << <<1, "keys">> >>)

MirroringStore_keys(self_children) == keys_loop(self_children, 1, {}, <<>>)

(* storage/aioutils.py: AsyncFanoutStore.keys collects every child's keys  *)
(* into a set and then yields the set's members.  A set is iterated in an  *)
(* order the caller does not choose: SetOrders is every order it can take. *)
SetOrders(keys) ==
    {order \in [1..Cardinality(keys) -> keys] :
        \A i, j \in DOMAIN order : i # j => order[i] # order[j]}

AsyncFanoutStore_keys(self_children, order) ==
    LET r == keys_loop(self_children, 1, {}, <<>>)
    IN  IF r.exc # NoExc THEN r
        ELSE MOutcome(r.children, NoExc, [i \in DOMAIN order |-> order[i]],
                      r.calls)

----------------------------------------------------------------------------
(* storage/utils.py: CachingStore.  calls lists the child calls made, as   *)
(* <<"main" or "cache", method>>.                                           *)

COutcome(main, cache, exc, ret, calls) ==
    [main_store |-> main, cache_store |-> cache,
     exc |-> exc, ret |-> ret, calls |-> calls]

\* a put that writes the cache first
CachingStore_put_cache_first(main, cache, key, data) ==
    LET c == Put(cache, key, data)
        m == Put(main, key, data)
    IN  IF c.exc # NoExc
        THEN COutcome(main, c.store, c.exc, PyNone, << <<"cache", "put">> >>)
        ELSE COutcome(m.store, c.store, m.exc, PyNone,
                      << <<"cache", "put">>, <<"main", "put">> >>)

\* a put that writes main and forgets the cache
CachingStore_put_main_only(main, cache, key, data) ==
    LET m == Put(main, key, data)
    IN  COutcome(m.store, cache, m.exc, PyNone, << <<"main", "put">> >>)

CachingStore_put(main, cache, key, data) ==
    LET m == Put(main, key, data)
        c == Put(cache, key, data)
    IN  IF m.exc # NoExc
        THEN COutcome(m.store, cache, m.exc, PyNone, << <<"main", "put">> >>)
        ELSE COutcome(m.store, c.store, c.exc, PyNone,
                      << <<"main", "put">>, <<"cache", "put">> >>)

\* a get that reads main on a miss and does not populate the cache
CachingStore_get_no_populate(main, cache, key) ==
    LET e == Exists(cache, key)
        g == Get(cache, key)
        m == Get(main, key)
    IN  IF e.ret = TRUE
        THEN COutcome(main, g.store, g.exc, g.ret,
                      << <<"cache", "exists">>, <<"cache", "get">> >>)
        ELSE COutcome(m.store, cache, m.exc, m.ret,
                      << <<"cache", "exists">>, <<"main", "get">> >>)

CachingStore_get(main, cache, key) ==
    LET e == Exists(cache, key)
        calls1 == << <<"cache", "exists">> >>
    IN  IF e.exc # NoExc
        THEN COutcome(main, e.store, e.exc, PyNone, calls1)
        ELSE IF e.ret
        THEN LET g == Get(e.store, key)
             IN  COutcome(main, g.store, g.exc, g.ret,
                          Append(calls1, <<"cache", "get">>))
        ELSE LET m == Get(main, key)
                 calls2 == Append(calls1, <<"main", "get">>)
             IN  IF m.exc # NoExc
                 THEN COutcome(m.store, e.store, m.exc, PyNone, calls2)
                 ELSE LET c == Put(e.store, key, m.ret)
                          calls3 == Append(calls2, <<"cache", "put">>)
                      IN  IF c.exc # NoExc
                          THEN COutcome(m.store, c.store, c.exc, PyNone, calls3)
                          ELSE COutcome(m.store, c.store, NoExc, m.ret, calls3)

CachingStore_exists(main, cache, key) ==
    LET e == Exists(cache, key)
        calls1 == << <<"cache", "exists">> >>
    IN  IF e.exc # NoExc
        THEN COutcome(main, e.store, e.exc, PyNone, calls1)
        ELSE IF e.ret
        THEN COutcome(main, e.store, NoExc, TRUE, calls1)
        ELSE LET m == Exists(main, key)
             IN  COutcome(m.store, e.store, m.exc,
                          IF m.exc # NoExc THEN PyNone ELSE m.ret,
                          Append(calls1, <<"main", "exists">>))

\* a delete that removes the key from main and leaves the cache alone
CachingStore_delete_main_only(main, cache, key) ==
    LET m == Delete(main, key)
    IN  COutcome(m.store, cache, m.exc, PyNone, << <<"main", "delete">> >>)

\* a delete that evicts the key from the cache before it asks main
CachingStore_delete_cache_first(main, cache, key) ==
    LET e == Exists(cache, key)
        d == IF e.ret = TRUE THEN Delete(cache, key)
             ELSE Outcome(cache, NoExc, PyNone)
        m == Delete(main, key)
        calls1 == IF e.ret = TRUE
                  THEN << <<"cache", "exists">>, <<"cache", "delete">> >>
                  ELSE << <<"cache", "exists">> >>
    IN  IF d.exc # NoExc THEN COutcome(main, d.store, d.exc, PyNone, calls1)
        ELSE COutcome(m.store, d.store, m.exc, PyNone,
                      Append(calls1, <<"main", "delete">>))

CachingStore_delete(main, cache, key) ==
    LET m == Delete(main, key)
        calls1 == << <<"main", "delete">> >>
    IN  IF m.exc # NoExc
        THEN COutcome(m.store, cache, m.exc, PyNone, calls1)
        ELSE LET e == Exists(cache, key)
                 calls2 == Append(calls1, <<"cache", "exists">>)
             IN  IF e.exc # NoExc
                 THEN COutcome(m.store, e.store, e.exc, PyNone, calls2)
                 ELSE IF e.ret
                 THEN LET d == Delete(e.store, key)
                      IN  COutcome(m.store, d.store, d.exc, PyNone,
                                   Append(calls2, <<"cache", "delete">>))
                 ELSE COutcome(m.store, e.store, NoExc, PyNone, calls2)

CachingStore_keys(main, cache) ==
    LET m == StoreKeys(main)
    IN  COutcome(m.store, cache, m.exc, m.ret, << <<"main", "keys">> >>)

\* the second loop of clear(): delete every key of to_delete from the cache.
\* The outcome does not depend on the order of to_delete: a DictStore deletes
\* them all, a ReadonlyStore raises on the first.
RECURSIVE clear_loop(_, _, _, _)
clear_loop(main, cache, to_delete, calls) ==
    IF to_delete = {}
    THEN COutcome(main, cache, NoExc, PyNone, calls)
    ELSE LET cached_key == CHOOSE k \in to_delete : TRUE
             d == Delete(cache, cached_key)
             calls2 == Append(calls, <<"cache", "delete">>)
         IN  IF d.exc # NoExc
             THEN COutcome(main, d.store, d.exc, PyNone, calls2)
             ELSE clear_loop(main, d.store, to_delete \ {cached_key}, calls2)

\* a clear(key) that evicts by way of delete(key)
CachingStore_clear_via_delete(main, cache, key) ==
    IF key = PyNone
    THEN LET ks == StoreKeys(cache)
         IN  clear_loop(main, ks.store, ks.ret, << <<"cache", "keys">> >>)
    ELSE CachingStore_delete(main, cache, key)

\* clear(key); key = PyNone is clear()
CachingStore_clear(main, cache, key) ==
    IF key = PyNone
    THEN LET ks == StoreKeys(cache)
             calls1 == << <<"cache", "keys">> >>
         IN  IF ks.exc # NoExc
             THEN COutcome(main, ks.store, ks.exc, PyNone, calls1)
             ELSE clear_loop(main, ks.store, ks.ret, calls1)
    ELSE LET e == Exists(cache, key)
             calls1 == << <<"cache", "exists">> >>
         IN  IF e.exc # NoExc
             THEN COutcome(main, e.store, e.exc, PyNone, calls1)
             ELSE IF e.ret
             THEN LET d == Delete(e.store, key)
                  IN  COutcome(main, d.store, d.exc, PyNone,
                               Append(calls1, <<"cache", "delete">>))
             ELSE COutcome(main, e.store, NoExc, PyNone, calls1)

----------------------------------------------------------------------------
(* The outcome of the latest call: what was called, with what, and what    *)
(* came back.                                                              *)

Last(op, key, data, r) ==
    [op |-> op, key |-> key, data |-> data,
     exc |-> r.exc, ret |-> r.ret, calls |-> r.calls]

NoCall ==
    [op |-> "none", key |-> PyNone, data |-> PyNone,
     exc |-> NoExc, ret |-> PyNone, calls |-> <<>>]

Returned(op) == last.op = op /\ last.exc = NoExc

----------------------------------------------------------------------------
(* A MirroringStore over any list of at most MaxChildren children, each in *)
(* any state.                                                              *)

\* A put or a delete stops at the first child that raises, so a second
\* raising child behaves as any child that is never reached: the lists with
\* at most one ReadonlyStore child cover every behaviour.
ReadonlyCount(ch) == Cardinality({i \in DOMAIN ch : ch[i].cls = "ReadonlyStore"})

ChildLists ==
    {ch \in UNION {[1..n -> ChildStores] : n \in 0..MaxChildren} :
        ReadonlyCount(ch) <= 1}

MirrorInit ==
    /\ children \in ChildLists
    /\ main_store = DictStore(<<>>)
    /\ cache_store = DictStore(<<>>)
    /\ last = NoCall
    /\ tasks = <<>>
    /\ decorator = NoStore
    /\ from_store = NoStore
    /\ to_store = NoStore
    /\ stores = <<>>
    /\ built_stores = {}
    /\ registry = STORES
    /\ notifying_store = NoStore
    /\ key_store = NoStore
    /\ scoped = NoStore
    /\ environ = <<>>

MirrorStep(op, key, data, r) ==
    /\ last.op = "none"
    /\ children' = r.children
    /\ last' = Last(op, key, data, r)
    /\ UNCHANGED <<wrapper_vars, main_store, cache_store, stores,
                   built_stores, environ, registry, notifying_store,
                   key_store, scoped>>

MirrorPut ==
    \E key \in Keys, data \in Data :
        MirrorStep("put", key, data, MirroringStore_put(children, key, data))

MirrorGet ==
    \E key \in Keys :
        MirrorStep("get", key, PyNone, MirroringStore_get(children, key))

MirrorExists ==
    \E key \in Keys :
        MirrorStep("exists", key, PyNone, MirroringStore_exists(children, key))

MirrorDelete ==
    \E key \in Keys :
        MirrorStep("delete", key, PyNone, MirroringStore_delete(children, key))

MirrorKeys ==
    MirrorStep("keys", PyNone, PyNone, MirroringStore_keys(children))

\* the same children behind an AsyncFanoutStore, its keys() drained
MirrorAsyncKeys ==
    \E order \in LET r == keys_loop(children, 1, {}, <<>>)
                 IN  IF r.exc = NoExc THEN SetOrders(r.ret) ELSE {<<>>} :
        MirrorStep("async keys", PyNone, PyNone,
                   AsyncFanoutStore_keys(children, order))

\* the caller takes the outcome; the store is ready for the next call
MirrorReturn ==
    /\ last.op # "none"
    /\ last' = NoCall
    /\ UNCHANGED <<wrapper_vars, children, main_store, cache_store, stores,
                   built_stores, environ, registry, notifying_store,
                   key_store, scoped>>

MirrorNext ==
    \/ MirrorReturn
    \/ MirrorPut
    \/ MirrorGet
    \/ MirrorExists
    \/ MirrorDelete
    \/ MirrorKeys
    \/ MirrorAsyncKeys

SpecMirror == MirrorInit /\ [][MirrorNext]_vars

-----------------------------------------------------------------------------
(* storage/aioutils.py: AsyncCachingStore, one awaited child call at a     *)
(* time.  A coroutine is a call with its position, the data it has read,   *)
(* the child calls it has made and, once done, what it returned or raised. *)
(* Between two awaits the event loop may run any other coroutine.          *)

Coroutine(op, key, data) ==
    [op |-> op, key |-> key, data |-> data, pc |-> "start", local |-> PyNone,
     exc |-> NoExc, ret |-> PyNone, calls |-> <<>>]

Finished(t) == t.pc = "done"

\* the coroutine after awaiting method of the child named store
Awaited(t, store, method) == [t EXCEPT !.calls = Append(@, <<store, method>>)]

Returns(t, ret) == [t EXCEPT !.pc = "done", !.ret = ret]

Raises(t, exc) == [t EXCEPT !.pc = "done", !.exc = exc]

At(t, pc) == [t EXCEPT !.pc = pc]

CStep(t, main, cache) == [task |-> t, main_store |-> main, cache_store |-> cache]

\* a put that writes main and forgets the cache
AsyncCachingStore_put_step_main_only(t, main, cache) ==
    LET m == Put(main, t.key, t.data)
        t1 == Awaited(t, "main", "put")
    IN  IF m.exc # NoExc THEN CStep(Raises(t1, m.exc), m.store, cache)
        ELSE CStep(Returns(t1, PyNone), m.store, cache)

AsyncCachingStore_put_step(t, main, cache) ==
    IF t.pc = "start"
    THEN LET m == Put(main, t.key, t.data)
             t1 == Awaited(t, "main", "put")
         IN  IF m.exc # NoExc THEN CStep(Raises(t1, m.exc), m.store, cache)
             ELSE CStep(At(t1, "cache.put"), m.store, cache)
    ELSE LET c == Put(cache, t.key, t.data)
             t1 == Awaited(t, "cache", "put")
         IN  IF c.exc # NoExc THEN CStep(Raises(t1, c.exc), main, c.store)
             ELSE CStep(Returns(t1, PyNone), main, c.store)

\* a get that returns what it read from main and leaves the cache alone
AsyncCachingStore_get_step_no_populate(t, main, cache) ==
    IF t.pc = "start"
    THEN LET e == Exists(cache, t.key)
         IN  CStep(At(Awaited(t, "cache", "exists"),
                      IF e.ret THEN "cache.get" ELSE "main.get"), main, cache)
    ELSE IF t.pc = "cache.get"
    THEN LET g == Get(cache, t.key)
             t1 == Awaited(t, "cache", "get")
         IN  IF g.exc # NoExc THEN CStep(Raises(t1, g.exc), main, g.store)
             ELSE CStep(Returns(t1, g.ret), main, g.store)
    ELSE LET m == Get(main, t.key)
             t1 == Awaited(t, "main", "get")
         IN  IF m.exc # NoExc THEN CStep(Raises(t1, m.exc), m.store, cache)
             ELSE CStep(Returns(t1, m.ret), m.store, cache)

AsyncCachingStore_get_step(t, main, cache) ==
    IF t.pc = "start"
    THEN LET e == Exists(cache, t.key)
             t1 == Awaited(t, "cache", "exists")
         IN  IF e.exc # NoExc THEN CStep(Raises(t1, e.exc), main, e.store)
             ELSE CStep(At(t1, IF e.ret THEN "cache.get" ELSE "main.get"),
                        main, e.store)
    ELSE IF t.pc = "cache.get"
    THEN LET g == Get(cache, t.key)
             t1 == Awaited(t, "cache", "get")
         IN  IF g.exc # NoExc THEN CStep(Raises(t1, g.exc), main, g.store)
             ELSE CStep(Returns(t1, g.ret), main, g.store)
    ELSE IF t.pc = "main.get"
    THEN LET m == Get(main, t.key)
             t1 == Awaited(t, "main", "get")
         IN  IF m.exc # NoExc THEN CStep(Raises(t1, m.exc), m.store, cache)
             ELSE CStep([At(t1, "cache.put") EXCEPT !.local = m.ret],
                        m.store, cache)
    ELSE LET c == Put(cache, t.key, t.local)
             t1 == Awaited(t, "cache", "put")
         IN  IF c.exc # NoExc THEN CStep(Raises(t1, c.exc), main, c.store)
             ELSE CStep(Returns(t1, t.local), main, c.store)

\* `a or b` awaits b only when a is false
AsyncCachingStore_exists_step(t, main, cache) ==
    IF t.pc = "start"
    THEN LET e == Exists(cache, t.key)
             t1 == Awaited(t, "cache", "exists")
         IN  IF e.exc # NoExc THEN CStep(Raises(t1, e.exc), main, e.store)
             ELSE IF e.ret THEN CStep(Returns(t1, TRUE), main, e.store)
             ELSE CStep(At(t1, "main.exists"), main, e.store)
    ELSE LET m == Exists(main, t.key)
             t1 == Awaited(t, "main", "exists")
         IN  IF m.exc # NoExc THEN CStep(Raises(t1, m.exc), m.store, cache)
             ELSE CStep(Returns(t1, m.ret), m.store, cache)

AsyncCachingStore_delete_step(t, main, cache) ==
    IF t.pc = "start"
    THEN LET m == Delete(main, t.key)
             t1 == Awaited(t, "main", "delete")
         IN  IF m.exc # NoExc THEN CStep(Raises(t1, m.exc), m.store, cache)
             ELSE CStep(At(t1, "cache.exists"), m.store, cache)
    ELSE IF t.pc = "cache.exists"
    THEN LET e == Exists(cache, t.key)
             t1 == Awaited(t, "cache", "exists")
         IN  IF e.exc # NoExc THEN CStep(Raises(t1, e.exc), main, e.store)
             ELSE IF e.ret THEN CStep(At(t1, "cache.delete"), main, e.store)
             ELSE CStep(Returns(t1, PyNone), main, e.store)
    ELSE LET d == Delete(cache, t.key)
             t1 == Awaited(t, "cache", "delete")
         IN  IF d.exc # NoExc THEN CStep(Raises(t1, d.exc), main, d.store)
             ELSE CStep(Returns(t1, PyNone), main, d.store)

\* async for key in self.main_store.keys(): yield key, drained by the caller
AsyncCachingStore_keys_step(t, main, cache) ==
    LET m == StoreKeys(main)
        t1 == Awaited(t, "main", "keys")
    IN  IF m.exc # NoExc THEN CStep(Raises(t1, m.exc), m.store, cache)
        ELSE CStep(Returns(t1, m.ret), m.store, cache)

\* clear(key); key = PyNone is clear(), which deletes each key as the
\* cache's keys() yields it.  local holds the keys still to be yielded: the
\* children list their keys from a snapshot or a cursor, which a delete of
\* the key just yielded does not disturb.
AsyncCachingStore_clear_step(t, main, cache) ==
    IF t.key = PyNone /\ t.pc = "start"
    THEN LET ks == StoreKeys(cache)
             t1 == Awaited(t, "cache", "keys")
         IN  IF ks.exc # NoExc THEN CStep(Raises(t1, ks.exc), main, ks.store)
             ELSE IF ks.ret = {} THEN CStep(Returns(t1, PyNone), main, ks.store)
             ELSE CStep([At(t1, "cache.delete") EXCEPT !.local = ks.ret],
                        main, ks.store)
    ELSE IF t.key = PyNone
    THEN LET cached_key == CHOOSE k \in t.local : TRUE
             d == Delete(cache, cached_key)
             t1 == [Awaited(t, "cache", "delete") EXCEPT
                       !.local = @ \ {cached_key}]
         IN  IF d.exc # NoExc THEN CStep(Raises(t1, d.exc), main, d.store)
             ELSE IF t1.local = {} THEN CStep(Returns(t1, PyNone), main, d.store)
             ELSE CStep(t1, main, d.store)
    ELSE IF t.pc = "start"
    THEN LET e == Exists(cache, t.key)
             t1 == Awaited(t, "cache", "exists")
         IN  IF e.exc # NoExc THEN CStep(Raises(t1, e.exc), main, e.store)
             ELSE IF e.ret THEN CStep(At(t1, "cache.delete"), main, e.store)
             ELSE CStep(Returns(t1, PyNone), main, e.store)
    ELSE LET d == Delete(cache, t.key)
             t1 == Awaited(t, "cache", "delete")
         IN  IF d.exc # NoExc THEN CStep(Raises(t1, d.exc), main, d.store)
             ELSE CStep(Returns(t1, PyNone), main, d.store)

\* the coroutine resumed: it runs to its next await
AsyncCachingStore_step(t, main, cache) ==
    IF t.op = "put" THEN AsyncCachingStore_put_step(t, main, cache)
    ELSE IF t.op = "get" THEN AsyncCachingStore_get_step(t, main, cache)
    ELSE IF t.op = "exists" THEN AsyncCachingStore_exists_step(t, main, cache)
    ELSE IF t.op = "delete" THEN AsyncCachingStore_delete_step(t, main, cache)
    ELSE IF t.op = "keys" THEN AsyncCachingStore_keys_step(t, main, cache)
    ELSE AsyncCachingStore_clear_step(t, main, cache)

\* await store.op(...) with no other coroutine running: the coroutine is
\* resumed until it is done
RECURSIVE AwaitCaching(_, _, _)
AwaitCaching(t, main, cache) ==
    IF Finished(t) THEN COutcome(main, cache, t.exc, t.ret, t.calls)
    ELSE LET r == AsyncCachingStore_step(t, main, cache)
         IN  AwaitCaching(r.task, r.main_store, r.cache_store)

----------------------------------------------------------------------------
(* A CachingStore over a main store and a cache store, each in any state.  *)

CacheInit ==
    /\ main_store \in ChildStores
    /\ cache_store \in ChildStores
    /\ children = <<>>
    /\ last = NoCall
    /\ tasks = <<>>
    /\ decorator = NoStore
    /\ from_store = NoStore
    /\ to_store = NoStore
    /\ stores = <<>>
    /\ built_stores = {}
    /\ registry = STORES
    /\ notifying_store = NoStore
    /\ key_store = NoStore
    /\ scoped = NoStore
    /\ environ = <<>>

\* the outcome of a call, with the stores as the call found them
CacheLast(op, key, data, r) ==
    [op |-> op, key |-> key, data |-> data, exc |-> r.exc, ret |-> r.ret,
     calls |-> r.calls,
     before |-> [main_store |-> main_store, cache_store |-> cache_store]]

CacheStep(op, key, data, r) ==
    /\ last.op = "none"
    /\ main_store' = r.main_store
    /\ cache_store' = r.cache_store
    /\ last' = CacheLast(op, key, data, r)
    /\ UNCHANGED <<wrapper_vars, children, stores, built_stores, environ,
                   registry, notifying_store, key_store, scoped>>

CachePut ==
    \E key \in Keys, data \in Data :
        CacheStep("put", key, data,
                  CachingStore_put(main_store, cache_store, key, data))

CacheGet ==
    \E key \in Keys :
        CacheStep("get", key, PyNone,
                  CachingStore_get(main_store, cache_store, key))

CacheExists ==
    \E key \in Keys :
        CacheStep("exists", key, PyNone,
                  CachingStore_exists(main_store, cache_store, key))

CacheDelete ==
    \E key \in Keys :
        CacheStep("delete", key, PyNone,
                  CachingStore_delete(main_store, cache_store, key))

CacheKeys ==
    CacheStep("keys", PyNone, PyNone,
              CachingStore_keys(main_store, cache_store))

CacheClear ==
    \E key \in Keys \cup {PyNone} :
        CacheStep("clear", key, PyNone,
                  CachingStore_clear(main_store, cache_store, key))

\* the same stores behind an AsyncCachingStore: a child of the concurrent
\* flavour answers an awaited call as its blocking twin answers the call.
\* One call is awaited, with no other coroutine running.
CacheAwait ==
    \E op \in {"put", "get", "exists", "delete", "keys", "clear"} :
        \E key \in IF op = "keys" THEN {PyNone}
                   ELSE IF op = "clear" THEN Keys \cup {PyNone} ELSE Keys :
            \E data \in IF op = "put" THEN Data ELSE {PyNone} :
                CacheStep("await " \o op, key, data,
                          AwaitCaching(Coroutine(op, key, data), main_store,
                                       cache_store))

\* the caller takes the outcome; the store is ready for the next call
CacheReturn ==
    /\ last.op # "none"
    /\ last' = NoCall
    /\ UNCHANGED <<wrapper_vars, children, main_store, cache_store, stores,
                   built_stores, environ, registry, notifying_store,
                   key_store, scoped>>

CacheNext ==
    \/ CacheReturn
    \/ CachePut
    \/ CacheGet
    \/ CacheExists
    \/ CacheDelete
    \/ CacheKeys
    \/ CacheClear
    \/ CacheAwait

SpecCache == CacheInit /\ [][CacheNext]_vars

\* A CachingStore over two DictStores, the cache holding only keys that main
\* holds: stores that fail with KeyError and nothing else.
CacheSubsetInit ==
    /\ main_store \in {DictStore(d) : d \in Dicts}
    /\ cache_store \in {DictStore(d) : d \in Dicts}
    /\ DOMAIN cache_store.objects \subseteq DOMAIN main_store.objects
    /\ children = <<>>
    /\ last = NoCall
    /\ tasks = <<>>
    /\ decorator = NoStore
    /\ from_store = NoStore
    /\ to_store = NoStore
    /\ stores = <<>>
    /\ built_stores = {}
    /\ registry = STORES
    /\ notifying_store = NoStore
    /\ key_store = NoStore
    /\ scoped = NoStore
    /\ environ = <<>>

SpecCacheSubset == CacheSubsetInit /\ [][CacheNext]_vars

----------------------------------------------------------------------------
(* storage/config_builder.py: StoreFactory.                                *)
(*                                                                         *)
(* A definition is [type, base].  base is [shape, refs]: shape "absent"    *)
(* (the definition has no base key), "str" (refs = <<name>>), "list"       *)
(* (refs = the names listed) or "dict" (refs = <<main_store entry,         *)
(* cache_store entry>>, NoEntry for a key the mapping lacks; a mapping     *)
(* lacking both is the empty mapping).  The config mappings hold no        *)
(* ${...} strings here, so _resolve_values returns them as they are; the   *)
(* interpolation itself is modelled on its own further down.               *)

Names == {"a", "b", "c"}

MaxBaseLen == 3

NoEntry == "<no entry>"

ConfigError(msg, arg) == Exc("ConfigError", msg, arg)

\* self.config.get('main')
factory_main == "a"

Base(shape, refs) == [shape |-> shape, refs |-> refs]

\* base_config == {}: the default of store_def.get('base', {}) and the
\* empty mapping alike
BaseIsEmptyDict(base) ==
    \/ base.shape = "absent"
    \/ base.shape = "dict" /\ base.refs = <<NoEntry, NoEntry>>

\* what build() carries along: the marks, the constructor calls made so far
\* (the names of the definitions constructed, in order)
BOutcome(built, constructed, exc, ret) ==
    [built_stores |-> built, constructed |-> constructed,
     exc |-> exc, ret |-> ret]

\* store_class(**config)
Construct(reg, store_name, store_type, config, built, constructed) ==
    LET class == reg[store_type]
        constructed2 == Append(constructed, store_name)
    IN  IF class.required \subseteq DOMAIN config
           /\ DOMAIN config \subseteq class.accepted
        THEN BOutcome(built, constructed2, NoExc,
                      [name |-> store_name, type |-> store_type,
                       config |-> config])
        ELSE BOutcome(built, constructed2, TypeError(store_type), PyNone)

_raise_invalid_base_config(store_type, base_config_type) ==
    ConfigError("Invalid base store configuration", store_type)

RECURSIVE build(_, _, _, _, _)
RECURSIVE _parse_list_base_loop(_, _, _, _, _, _, _)

\* the loop of _parse_list_base: build the listed names from the i-th on
_parse_list_base_loop(reg, defs, refs, i, built_child_stores, built, constructed) ==
    IF i > Len(refs)
    THEN BOutcome(built, constructed, NoExc, built_child_stores)
    ELSE LET r == build(reg, defs, refs[i], built, constructed)
         IN  IF r.exc # NoExc
             THEN r
             ELSE _parse_list_base_loop(reg, defs, refs, i + 1,
                                        Append(built_child_stores, r.ret),
                                        r.built_stores, r.constructed)

\* _parse_list_base without its check of the store type: any store type
\* takes a list base
_parse_list_base_any_type(reg, defs, store_type, config, base_config, built, constructed) ==
    LET r == _parse_list_base_loop(reg, defs, base_config.refs, 1, <<>>,
                                   built, constructed)
    IN  IF r.exc # NoExc THEN r
        ELSE BOutcome(r.built_stores, r.constructed, NoExc,
                      [k \in DOMAIN config \cup {"children"} |->
                          IF k = "children" THEN r.ret ELSE config[k]])

\* _parse_list_base: the outcome's ret is the config with children injected
_parse_list_base(reg, defs, store_type, config, base_config, built, constructed) ==
    IF store_type = "MirroringStore" \/ store_type = "AsyncFanoutStore"
    THEN LET r == _parse_list_base_loop(reg, defs, base_config.refs, 1, <<>>,
                                        built, constructed)
         IN  IF r.exc # NoExc THEN r
             ELSE BOutcome(r.built_stores, r.constructed, NoExc,
                           [k \in DOMAIN config \cup {"children"} |->
                               IF k = "children" THEN r.ret ELSE config[k]])
    ELSE BOutcome(built, constructed,
                  _raise_invalid_base_config(store_type, "list"), PyNone)

\* _parse_dictionary_base: base_config['main_store'] and then
\* base_config['cache_store'] are looked up and built
_parse_dictionary_base(reg, defs, store_type, config, base_config, built, constructed) ==
    IF store_type = "CachingStore" \/ store_type = "AsyncCachingStore"
    THEN IF base_config.refs[1] = NoEntry
         THEN BOutcome(built, constructed, KeyError("main_store"), PyNone)
         ELSE LET m == build(reg, defs, base_config.refs[1], built, constructed)
              IN  IF m.exc # NoExc THEN m
                  ELSE IF base_config.refs[2] = NoEntry
                  THEN BOutcome(m.built_stores, m.constructed,
                                KeyError("cache_store"), PyNone)
                  ELSE LET c == build(reg, defs, base_config.refs[2],
                                      m.built_stores, m.constructed)
                       IN  IF c.exc # NoExc THEN c
                           ELSE BOutcome(c.built_stores, c.constructed, NoExc,
                                  [k \in DOMAIN config
                                         \cup {"main_store", "cache_store"} |->
                                     IF k = "main_store" THEN m.ret
                                     ELSE IF k = "cache_store" THEN c.ret
                                     ELSE config[k]])
    ELSE BOutcome(built, constructed,
                  _raise_invalid_base_config(store_type, "dict"), PyNone)

\* build(store_name), store_name not None, on a factory whose stores are defs
\* and whose built_stores are built
build(reg, defs, store_name, built, constructed) ==
    IF store_name \in built
    THEN BOutcome(built, constructed,
                  ConfigError("Recursive store definition found", store_name),
                  PyNone)
    ELSE LET built2 == built \cup {store_name}
         IN  IF store_name \notin DOMAIN defs
             THEN BOutcome(built2, constructed, KeyError(store_name), PyNone)
             ELSE LET store_def == defs[store_name]
                      store_type == store_def.type
                      config == IF "config" \in DOMAIN store_def
                                THEN store_def.config ELSE <<>>
                      base_config == store_def.base
                  IN  IF store_type \notin DOMAIN reg
                      THEN BOutcome(built2, constructed, KeyError(store_type),
                                    PyNone)
                      ELSE LET c ==
                                 IF BaseIsEmptyDict(base_config)
                                 THEN BOutcome(built2, constructed, NoExc, config)
                                 ELSE IF base_config.shape = "dict"
                                 THEN _parse_dictionary_base(reg, defs, store_type,
                                        config, base_config, built2, constructed)
                                 ELSE IF base_config.shape = "list"
                                 THEN _parse_list_base(reg, defs, store_type, config,
                                        base_config, built2, constructed)
                                 ELSE LET r == build(reg, defs, base_config.refs[1],
                                                     built2, constructed)
                                      IN  IF r.exc # NoExc THEN r
                                          ELSE BOutcome(r.built_stores,
                                                 r.constructed, NoExc,
                                                 [k \in DOMAIN config
                                                        \cup {"store"} |->
                                                    IF k = "store" THEN r.ret
                                                    ELSE config[k]])
                           IN  IF c.exc # NoExc THEN c
                               ELSE Construct(reg, store_name, store_type, c.ret,
                                              c.built_stores, c.constructed)

\* build(store_name=None)
StoreFactory_build(reg, defs, store_name, built) ==
    build(reg, defs, IF store_name = PyNone THEN factory_main ELSE store_name,
          built, <<>>)

----------------------------------------------------------------------------
(* A StoreFactory over a configuration of two or three definitions.        *)

Types ==
    {"DictStore", "IdentityStore", "MirroringStore", "CachingStore",
     "UnknownStore"}

Lists == UNION {[1..n -> Names] : n \in 0..MaxBaseLen}

Bases ==
    {Base("absent", <<>>)}
    \cup {Base("str", <<n>>) : n \in Names}
    \cup {Base("list", l) : l \in Lists}
    \cup {Base("dict", <<m, c>>) : m \in Names \cup {NoEntry},
                                  c \in Names \cup {NoEntry}}

Definitions == [type : Types, base : Bases]

\* the definitions of an inner store: of any type, over no base, one named
\* base or a list of one name
InnerBases ==
    {Base("absent", <<>>)}
    \cup {Base("str", <<n>>) : n \in Names}
    \cup {Base("list", <<n>>) : n \in Names}

InnerDefinitions == [type : Types, base : InnerBases]

\* a backend definition: a DictStore, which takes no base
Backend == [type |-> "DictStore", base |-> Base("absent", <<>>)]

\* "a" is defined at will; "b" is an inner store, or is not defined at all;
\* "c" is a backend
Configs ==
    {[n \in {"a", "c"} |-> IF n = "c" THEN Backend ELSE da] :
        da \in Definitions}
    \cup {[n \in Names |->
             IF n = "c" THEN Backend ELSE IF n = "a" THEN da ELSE db] :
          da \in Definitions, db \in InnerDefinitions}

BuildInit ==
    /\ stores \in Configs
    /\ built_stores = {}
    /\ registry = STORES
    /\ notifying_store = NoStore
    /\ key_store = NoStore
    /\ scoped = NoStore
    /\ environ = <<>>
    /\ last = NoCall
    /\ tasks = <<>>
    /\ decorator = NoStore
    /\ from_store = NoStore
    /\ to_store = NoStore
    /\ children = <<>>
    /\ main_store = DictStore(<<>>)
    /\ cache_store = DictStore(<<>>)

Build ==
    \E store_name \in Names \cup {PyNone} :
        LET r == StoreFactory_build(registry, stores, store_name, built_stores)
        IN  /\ last.op = "none"
            /\ built_stores' = r.built_stores
            /\ last' = [op |-> "build",
                        key |-> IF store_name = PyNone THEN factory_main
                                ELSE store_name,
                        data |-> PyNone,
                        exc |-> r.exc, ret |-> r.ret, calls |-> r.constructed]
            /\ UNCHANGED <<wrapper_vars, stores, children, main_store, cache_store,
                   environ, registry, notifying_store, key_store, scoped>>

\* the caller takes the outcome; the factory is ready for the next call
BuildReturn ==
    /\ last.op # "none"
    /\ last' = NoCall
    /\ UNCHANGED <<wrapper_vars, stores, built_stores, children, main_store,
                   cache_store, environ, registry, notifying_store, key_store,
                   scoped>>

BuildNext ==
    \/ Build
    \/ BuildReturn

SpecBuild == BuildInit /\ [][BuildNext]_vars

----------------------------------------------------------------------------
(* Registration of store types.  register_store is imported from           *)
(* storage.config_builder by the tests; it is modelled as the decorator    *)
(* that enters the class into StoreFactory.STORES under its own name.      *)

\* the classes the tests register, by the parameters of their constructors
\* and the class they derive from
CustomClasses ==
    [AmplifyStore          |-> [required |-> {}, accepted |-> {},
                                bases |-> {"ObjectStore"}],
     PrefixedReadonlyStore |-> [required |-> {"prefix", "suffix", "store"},
                                accepted |-> {"prefix", "suffix", "store"},
                                bases |-> {"ReadonlyStore"}],
     LoggingMirrorStore    |-> [required |-> {"log_prefix", "children"},
                                accepted |-> {"log_prefix", "children"},
                                bases |-> {"MirroringStore"}],
     MetricsCachingStore   |-> [required |-> {"metric_prefix", "main_store",
                                              "cache_store"},
                                accepted |-> {"metric_prefix", "main_store",
                                              "cache_store"},
                                bases |-> {"CachingStore"}]]

\* @register_store on the class named name
register_store(reg, name) ==
    [n \in DOMAIN reg \cup {name} |->
        IF n = name THEN CustomClasses[name] ELSE reg[n]]

\* the config mappings of the test documents, and none
RegConfigMaps ==
    {<<>>,
     [log_prefix |-> "MIRROR"],
     [metric_prefix |-> "CACHE"],
     [prefix |-> "START:", suffix |-> ":END"]}

RegBases ==
    {Base("absent", <<>>), Base("str", <<"b">>),
     Base("list", <<"b", "c">>), Base("list", <<"c", "b">>),
     Base("dict", <<"b", "c">>), Base("dict", <<"c", "b">>)}

RegDefinitions ==
    [type : DOMAIN CustomClasses \cup {"MirroringStore"},
     config : RegConfigMaps,
     base : RegBases]

\* "a" is a definition of a registered or built-in type over the backends
\* "b" and "c"
RegConfigs ==
    {[n \in Names |-> IF n = "a" THEN da ELSE Backend] : da \in RegDefinitions}

RegInit ==
    /\ stores \in RegConfigs
    /\ built_stores = {}
    /\ registry = STORES
    /\ notifying_store = NoStore
    /\ key_store = NoStore
    /\ scoped = NoStore
    /\ environ = <<>>
    /\ last = NoCall
    /\ tasks = <<>>
    /\ decorator = NoStore
    /\ from_store = NoStore
    /\ to_store = NoStore
    /\ children = <<>>
    /\ main_store = DictStore(<<>>)
    /\ cache_store = DictStore(<<>>)

Register ==
    /\ last.op = "none"
    /\ \E name \in DOMAIN CustomClasses :
           registry' = register_store(registry, name)
    /\ UNCHANGED <<wrapper_vars, stores, built_stores, environ, last,
                   children, main_store, cache_store, notifying_store,
                   key_store, scoped>>

RegNext ==
    \/ Register
    \/ Build
    \/ BuildReturn

SpecRegister == RegInit /\ [][RegNext]_vars

----------------------------------------------------------------------------
(* StoreFactory._resolve_values: the interpolation of environment          *)
(* variables into the config mapping of a definition.                      *)
(*                                                                         *)
(* A string is a sequence of characters.  A config value is a string       *)
(* (kind "str"), a list of values, a dict (its items as <<key, value>>     *)
(* pairs in the order of the dict) or anything else (an int, a bool,       *)
(* None).  environ maps the names of the variables that are set to their   *)
(* values.                                                                 *)

MaxTokens == 5

\* [A-Za-z_] and [A-Za-z0-9_], by the characters of the strings used here
NameStart == {"A", "_"}
NameChar == {"A", "_", "1"}

RECURSIVE ToStr(_)
\* a sequence of characters as one name
ToStr(cs) == IF cs = <<>> THEN "" ELSE cs[1] \o ToStr(Tail(cs))

NoMatch == [matched |-> FALSE, var_name |-> <<>>, has_default |-> FALSE,
            default |-> <<>>]

\* match.group(1) and match.group(3); has_default is FALSE when group 3 is
\* None
Match(var_name, has_default, default) ==
    [matched |-> TRUE, var_name |-> var_name, has_default |-> has_default,
     default |-> default]

\* the pattern's closing $ at position i of s: the end of the string, or a
\* newline that ends the string
Dollar(s, i) ==
    \/ i = Len(s) + 1
    \/ i = Len(s) /\ s[i] = "\n"

\* re.match(r'^\$\{([A-Za-z_][A-Za-z0-9_]*)(:-([^}]*))?\}$', s)
re_match(s) ==
    IF Len(s) < 4 \/ s[1] # "$" \/ s[2] # "{" \/ s[3] \notin NameStart
    THEN NoMatch
    ELSE LET \* the name is the longest run of name characters
             p == CHOOSE q \in 3..Len(s) :
                      /\ \A i \in 3..q : s[i] \in NameChar
                      /\ q = Len(s) \/ s[q + 1] \notin NameChar
             var_name == SubSeq(s, 3, p)
             \* [^}]* runs up to the first closing brace
             closes == {i \in (p + 3)..Len(s) : s[i] = "}"}
             c == CHOOSE i \in closes : \A j \in closes : i <= j
         IN  IF p < Len(s) /\ s[p + 1] = "}"
             THEN IF Dollar(s, p + 2)
                  THEN Match(var_name, FALSE, <<>>)
                  ELSE NoMatch
             ELSE IF p + 1 < Len(s) /\ s[p + 1] = ":" /\ s[p + 2] = "-"
                     /\ closes # {}
             THEN IF Dollar(s, c + 1)
                  THEN Match(var_name, TRUE, SubSeq(s, p + 3, c - 1))
                  ELSE NoMatch
             ELSE NoMatch

Str(s) == [kind |-> "str", s |-> s]
Other(v) == [kind |-> "other", v |-> v]
List(items) == [kind |-> "list", items |-> items]
Dict(items) == [kind |-> "dict", items |-> items]

ROutcome(exc, ret) == [exc |-> exc, ret |-> ret]

\* ConfigError(f"Environment variable '{var_name}' not found. ...")
EnvConfigError(var_name) ==
    ConfigError("Environment variable not found", ToStr(var_name))

RECURSIVE _resolve_values(_, _)
RECURSIVE resolve_items(_, _, _, _, _)

\* the comprehensions of _resolve_values: the items from the i-th on, one
\* after the other; the first exception ends the walk
resolve_items(kind, items, i, acc, env) ==
    IF i > Len(items)
    THEN ROutcome(NoExc, [kind |-> kind, items |-> acc])
    ELSE LET v == IF kind = "dict" THEN items[i][2] ELSE items[i]
             r == _resolve_values(v, env)
         IN  IF r.exc # NoExc
             THEN r
             ELSE resolve_items(kind, items, i + 1,
                      Append(acc, IF kind = "dict"
                                  THEN <<items[i][1], r.ret>>
                                  ELSE r.ret),
                      env)

_resolve_values(values, env) ==
    IF values.kind = "dict" \/ values.kind = "list"
    THEN resolve_items(values.kind, values.items, 1, <<>>, env)
    ELSE IF values.kind = "str"
    THEN LET match == re_match(values.s)
         IN  IF match.matched
             THEN LET name == ToStr(match.var_name)
                  IN  IF name \notin DOMAIN env
                      THEN IF match.has_default
                           THEN ROutcome(NoExc, Str(match.default))
                           ELSE ROutcome(EnvConfigError(match.var_name),
                                         PyNone)
                      ELSE ROutcome(NoExc, Str(env[name]))
             ELSE ROutcome(NoExc, values)
    ELSE ROutcome(NoExc, values)

----------------------------------------------------------------------------
(* A factory resolving config values under an environment.                 *)

\* the pieces the strings are made of
Tokens ==
    {<<"$", "{">>, <<"A">>, <<"1">>, <<":", "-">>, <<":">>, <<"}">>, <<"\n">>}

RECURSIVE Concat(_)
Concat(ts) == IF ts = <<>> THEN <<>> ELSE ts[1] \o Concat(Tail(ts))

\* the strings of n tokens are Concat(ts), ts \in TokenLists(n)
TokenLists(n) == [1..n -> Tokens]

\* os.environ: nothing set; A set to the empty string; A and A1 set
Environs ==
    {<<>>,
     [n \in {"A"} |-> <<>>],
     [n \in {"A", "A1"} |-> IF n = "A" THEN <<"v">> ELSE <<"w">>]}

Shapes == {"leaf", "list", "deep", "key"}

\* a config value of the given shape around leaf; the shape "key" has the
\* string s as a key of a dict
Value(shape, s, leaf) ==
    IF shape = "leaf" THEN leaf
    ELSE IF shape = "list" THEN List(<<Other(7), leaf>>)
    ELSE IF shape = "deep"
    THEN Dict(<< <<<<"k">>, List(<<Dict(<< <<<<"j">>, leaf>> >>)>>)>> >>)
    ELSE Dict(<< <<s, Other(7)>> >>)

EnvInit ==
    /\ environ \in Environs
    /\ last = NoCall
    /\ tasks = <<>>
    /\ decorator = NoStore
    /\ from_store = NoStore
    /\ to_store = NoStore
    /\ stores = <<>>
    /\ built_stores = {}
    /\ registry = STORES
    /\ notifying_store = NoStore
    /\ key_store = NoStore
    /\ scoped = NoStore
    /\ children = <<>>
    /\ main_store = DictStore(<<>>)
    /\ cache_store = DictStore(<<>>)

\* self._resolve_values(values), values a structure around one string
Resolve ==
    /\ last.op = "none"
    /\ \E n \in 0..MaxTokens, shape \in Shapes :
           \E ts \in TokenLists(n) :
               LET s == Concat(ts)
                   r == _resolve_values(Value(shape, s, Str(s)), environ)
               IN  last' = [op |-> "resolve", key |-> shape, data |-> s,
                            exc |-> r.exc, ret |-> r.ret, calls |-> <<>>]
    /\ UNCHANGED <<wrapper_vars, environ, stores, built_stores, children,
                   main_store, cache_store, registry, notifying_store,
                   key_store, scoped>>

\* self._resolve_values(values), values not a string
ResolveOther ==
    LET r == _resolve_values(Other(7), environ)
    IN  /\ last.op = "none"
        /\ last' = [op |-> "resolve", key |-> "other", data |-> <<>>,
                    exc |-> r.exc, ret |-> r.ret, calls |-> <<>>]
        /\ UNCHANGED <<wrapper_vars, environ, stores, built_stores, children,
                   main_store, cache_store, registry, notifying_store,
                   key_store, scoped>>

EnvReturn ==
    /\ last.op # "none"
    /\ last' = NoCall
    /\ UNCHANGED <<wrapper_vars, environ, stores, built_stores, children,
                   main_store, cache_store, registry, notifying_store,
                   key_store, scoped>>

EnvNext ==
    \/ Resolve
    \/ ResolveOther
    \/ EnvReturn

SpecEnv == EnvInit /\ [][EnvNext]_vars

----------------------------------------------------------------------------
(* NotifyingStore.  A handler is a callable of the caller: it is modelled  *)
(* by the registration that appended it (on_change, on_put, on_delete) and *)
(* by whether it returns or raises when it is called.  The calls of a put  *)
(* or delete are logged in order: the delegated call, then each call of a  *)
(* caller's handler with the arguments it received.                        *)

MaxHandlers == 2

\* the variables of the other stores and of the factory
other_vars ==
    <<children, main_store, cache_store, stores, built_stores, environ,
      registry, key_store, scoped, wrapper_vars>>

PUT == "put"
DELETE == "delete"

UnboundLocalError(name) == Exc("UnboundLocalError", "", name)
\* what a handler of the caller raises
HandlerError == Exc("HandlerError", "", "handler")

\* the entry that on_change, on_put or on_delete appends to self.handlers
Handler(via, raises) == [via |-> via, raises |-> raises]

Handlers == [via : {"on_change", "on_put", "on_delete"}, raises : BOOLEAN]

NotifyingStore(store, handlers) ==
    [cls |-> "NotifyingStore", store |-> store, handlers |-> handlers]

\* a logged call: of the wrapped store (who = "store"), or of the caller's
\* i-th handler with the arguments (store, action, key, e); an e of None is
\* NoExc
Delegated(action, key) ==
    [who |-> "store", i |-> 0, store |-> NoStore, action |-> action,
     key |-> key, e |-> NoExc]
Handled(i, store, action, key, e) ==
    [who |-> "handler", i |-> i, store |-> store, action |-> action,
     key |-> key, e |-> e]

NOutcome(store, exc, ret, calls) ==
    [store |-> store, exc |-> exc, ret |-> ret, calls |-> calls]

\* on_put and on_delete wrap the handler: it is called only for their action
Wants(h, action) ==
    \/ h.via = "on_change"
    \/ h.via = "on_put" /\ action = PUT
    \/ h.via = "on_delete" /\ action = DELETE

RECURSIVE handlers_loop(_, _, _, _, _, _, _)
\* for handler in self.handlers: handler(self.store, action, key, e), from
\* the i-th handler on; e_bound is FALSE when the except clause has unbound
\* the local e, and reading it then raises UnboundLocalError
handlers_loop(store, handlers, i, action, key, e_bound, calls) ==
    IF i > Len(handlers)
    THEN NOutcome(store, NoExc, PyNone, calls)
    ELSE IF ~e_bound
    THEN NOutcome(store, UnboundLocalError("e"), PyNone, calls)
    ELSE IF ~Wants(handlers[i], action)
    THEN handlers_loop(store, handlers, i + 1, action, key, e_bound, calls)
    ELSE LET calls2 == Append(calls, Handled(i, store, action, key, NoExc))
         IN  IF handlers[i].raises
             THEN NOutcome(store, HandlerError, PyNone, calls2)
             ELSE handlers_loop(store, handlers, i + 1, action, key, e_bound,
                                calls2)

\* notify with the handlers called before the delegated call is logged
notify_before_call(r, handlers, action, key) ==
    LET h == handlers_loop(r.store, handlers, 1, action, key,
                           r.exc = NoExc, <<>>)
    IN  NOutcome(h.store,
                 IF h.exc # NoExc THEN h.exc
                 ELSE IF r.exc # NoExc THEN UnboundLocalError("e")
                 ELSE NoExc,
                 PyNone, Append(h.calls, Delegated(action, key)))

\* the body shared by put and delete: r is the outcome of the delegated
\* call.  e = None; except Exception as e: pass leaves e unbound when the
\* call raised, so the e read after the loop raises as well
notify(r, handlers, action, key) ==
    LET e_bound == r.exc = NoExc
        h == handlers_loop(r.store, handlers, 1, action, key, e_bound,
                           <<Delegated(action, key)>>)
    IN  IF h.exc # NoExc THEN h
        ELSE IF ~e_bound
        THEN NOutcome(r.store, UnboundLocalError("e"), PyNone, h.calls)
        ELSE h

NotifyingStore_put(self, key, data) ==
    notify(Put(self.store, key, data), self.handlers, PUT, key)

NotifyingStore_delete(self, key) ==
    notify(Delete(self.store, key), self.handlers, DELETE, key)

\* get, exists and keys are those of IdentityStore
NotifyingStore_get(self, key) ==
    LET r == Get(self.store, key)
    IN  NOutcome(r.store, r.exc, r.ret, <<Delegated("get", key)>>)

NotifyingStore_exists(self, key) ==
    LET r == Exists(self.store, key)
    IN  NOutcome(r.store, r.exc, r.ret, <<Delegated("exists", key)>>)

NotifyingStore_keys(self) ==
    LET r == StoreKeys(self.store)
    IN  NOutcome(r.store, r.exc, r.ret, <<Delegated("keys", PyNone)>>)

NotifyInit ==
    /\ notifying_store \in {NotifyingStore(s, <<>>) : s \in ChildStores}
    /\ key_store = NoStore
    /\ scoped = NoStore
    /\ last = NoCall
    /\ tasks = <<>>
    /\ decorator = NoStore
    /\ from_store = NoStore
    /\ to_store = NoStore
    /\ stores = <<>>
    /\ built_stores = {}
    /\ registry = STORES
    /\ environ = <<>>
    /\ children = <<>>
    /\ main_store = DictStore(<<>>)
    /\ cache_store = DictStore(<<>>)

\* on_change, on_put, on_delete
Subscribe ==
    /\ last.op = "none"
    /\ Len(notifying_store.handlers) < MaxHandlers
    /\ \E h \in Handlers :
           notifying_store' =
               [notifying_store EXCEPT !.handlers = Append(@, h)]
    /\ UNCHANGED <<last, other_vars>>

\* a call returns r: the store is as the call left it
NotifyStep(op, key, data, r) ==
    /\ last.op = "none"
    /\ notifying_store' = [notifying_store EXCEPT !.store = r.store]
    /\ last' = Last(op, key, data, r)
    /\ UNCHANGED other_vars

NotifyPut ==
    \E key \in Keys, data \in Data :
        NotifyStep("put", key, data,
                   NotifyingStore_put(notifying_store, key, data))

NotifyDelete ==
    \E key \in Keys :
        NotifyStep("delete", key, PyNone,
                   NotifyingStore_delete(notifying_store, key))

NotifyGet ==
    \E key \in Keys :
        NotifyStep("get", key, PyNone,
                   NotifyingStore_get(notifying_store, key))

NotifyExists ==
    \E key \in Keys :
        NotifyStep("exists", key, PyNone,
                   NotifyingStore_exists(notifying_store, key))

NotifyKeys ==
    NotifyStep("keys", PyNone, PyNone, NotifyingStore_keys(notifying_store))

NotifyReturn ==
    /\ last.op # "none"
    /\ last' = NoCall
    /\ UNCHANGED <<notifying_store, other_vars>>

NotifyNext ==
    \/ Subscribe
    \/ NotifyPut
    \/ NotifyDelete
    \/ NotifyGet
    \/ NotifyExists
    \/ NotifyKeys
    \/ NotifyReturn

SpecNotify == NotifyInit /\ [][NotifyNext]_vars

----------------------------------------------------------------------------
(* storage/utils.py: KeyTransformingStore and its subclasses.  A key is a  *)
(* str: a sequence of characters.  An exception raised for a key carries   *)
(* the key, so exceptions are told apart by their type here.               *)

\* s[:n] and s[n:] for n >= 0
TakeFirst(s, n) == IF n >= Len(s) THEN s ELSE SubSeq(s, 1, n)
DropFirst(s, n) == IF n >= Len(s) THEN <<>> ELSE SubSeq(s, n + 1, Len(s))

Raised(r) == r.exc.type # "none"

KeyTransformingStore(store) == [cls |-> "KeyTransformingStore", store |-> store]

KeyValidatingStore(store, validator) ==
    [cls |-> "KeyValidatingStore", store |-> store, validator |-> validator]

\* A pattern is a list of items and may end with $.  An item is a set of
\* characters, once or repeated ([a-z] or [a-z]+).
Item(chars, plus) == [chars |-> chars, plus |-> plus, end |-> FALSE]
End == [chars |-> {}, plus |-> FALSE, end |-> TRUE]

RegexValidator(pattern) == [cls |-> "RegexValidator", pattern |-> pattern]

\* a validator function that accepts the keys of a set and raises KeyError
\* for every other key
Predicate(accepts) == [cls |-> "function", accepts |-> accepts]

UrlValidatingStore(store) ==
    [cls |-> "UrlValidatingStore", store |-> store,
     validator |-> [cls |-> "validate_http_url_key"]]

RegexValidatingStore(store, pattern) ==
    [cls |-> "RegexValidatingStore", store |-> store,
     validator |-> RegexValidator(pattern)]

PrefixStore(store, prefix) ==
    [cls |-> "PrefixStore", store |-> store, prefix |-> prefix]

HashPrefixStore(store, hash_length, separator) ==
    [cls |-> "HashPrefixStore", store |-> store, hash_length |-> hash_length,
     separator |-> separator]

UrlEncodingStore(store) == [cls |-> "UrlEncodingStore", store |-> store]

ValidatingClasses ==
    {"KeyValidatingStore", "UrlValidatingStore", "RegexValidatingStore"}

KeyTransformingClasses ==
    ValidatingClasses \cup
    {"KeyTransformingStore", "PrefixStore", "HashPrefixStore",
     "UrlEncodingStore"}

\* re.match(pattern, s): the pattern matches at the start of s; $ matches at
\* the end of s and before a newline that ends s
RECURSIVE re_match_items(_, _)
re_match_items(pattern, s) ==
    IF pattern = <<>> THEN TRUE
    ELSE IF pattern[1].end
    THEN (s = <<>> \/ s = <<"\n">>) /\ re_match_items(Tail(pattern), s)
    ELSE /\ s # <<>>
         /\ s[1] \in pattern[1].chars
         /\ \/ re_match_items(Tail(pattern), Tail(s))
            \/ pattern[1].plus /\ re_match_items(pattern, Tail(s))

RegexValidator_call(self, key) ==
    IF ~re_match_items(self.pattern, key)
    THEN Exc("KeyError", "key does not match pattern", key)
    ELSE NoExc

\* urlparse(key).scheme: the characters before the first colon, lowered,
\* when the first is a letter and all are scheme characters; else empty
\* (for a url that starts with no blank)
AsciiLetters == {"h", "t", "p", "s", "f", "k", "H"}
SchemeChars == AsciiLetters \cup {"0", "2", "5", "+", "-", "."}

Lower(c) == IF c = "H" THEN "h" ELSE c

Find(s, c) ==
    IF \E i \in DOMAIN s : s[i] = c
    THEN CHOOSE i \in DOMAIN s : s[i] = c /\ \A j \in 1..(i - 1) : s[j] # c
    ELSE 0

urlparse_scheme(url) ==
    LET i == Find(url, ":")
    IN  IF /\ i > 1
           /\ url[1] \in AsciiLetters
           /\ \A j \in 1..(i - 1) : url[j] \in SchemeChars
        THEN [j \in 1..(i - 1) |-> Lower(url[j])]
        ELSE <<>>

validate_http_url_key(key) ==
    IF urlparse_scheme(key) \notin {<<"h", "t", "t", "p">>,
                                    <<"h", "t", "t", "p", "s">>}
    THEN Exc("KeyError", "key is not a valid http/s url", key)
    ELSE NoExc

\* self.validator(key): the exception it raises, NoExc when it returns
validator(self, key) ==
    IF self.validator.cls = "RegexValidator"
    THEN RegexValidator_call(self.validator, key)
    ELSE IF self.validator.cls = "validate_http_url_key"
    THEN validate_http_url_key(key)
    ELSE IF key \in self.validator.accepts THEN NoExc
    ELSE Exc("KeyError", "Invalid key", key)

\* transform_key returns [exc, ret]
TKey(exc, ret) == [exc |-> exc, ret |-> ret]

KeyTransformingStore_transform_key(self, key) == TKey(NoExc, key)

KeyTransformingStore_reverse_transform_key(self, key) == key

KeyValidatingStore_transform_key(self, key) ==
    LET e == validator(self, key)
    IN  IF e.type # "none" THEN TKey(e, PyNone) ELSE TKey(NoExc, key)

PrefixStore_transform_key(self, key) == TKey(NoExc, self.prefix \o key)

PrefixStore_reverse_transform_key(self, key) ==
    DropFirst(key, Len(self.prefix))

\* hashlib.sha256(key.encode()).hexdigest(): DigestLen hexadecimal digits
\* that depend on nothing but the key (64 digits there)
DigestLen == 3

HexDigits == <<"0", "1", "2", "3", "4", "5", "6", "7", "8", "9",
               "a", "b", "c", "d", "e", "f">>

Weight(c) == IF c = "k" THEN 1 ELSE IF c = "/" THEN 2 ELSE IF c = " " THEN 3
             ELSE IF c = "%" THEN 5 ELSE 7

RECURSIVE Sum(_)
Sum(s) == IF s = <<>> THEN 0 ELSE Weight(s[1]) + Sum(Tail(s))

hexdigest(key) ==
    [i \in 1..DigestLen |->
        HexDigits[(((Sum(key) + 3) * i + Len(key)) % 16) + 1]]

HashPrefixStore_transform_key(self, key) ==
    LET hash_prefix == TakeFirst(hexdigest(key), self.hash_length)
    IN  TKey(NoExc, hash_prefix \o self.separator \o key)

HashPrefixStore_reverse_transform_key(self, key) ==
    DropFirst(key, self.hash_length + Len(self.separator))

\* key.split('/') and '/'.join(parts)
RECURSIVE split(_, _)
split(s, part) ==
    IF s = <<>> THEN <<part>>
    ELSE IF s[1] = "/" THEN <<part>> \o split(Tail(s), <<>>)
    ELSE split(Tail(s), Append(part, s[1]))

RECURSIVE join(_)
join(parts) ==
    IF Len(parts) = 1 THEN parts[1]
    ELSE parts[1] \o <<"/">> \o join(Tail(parts))

\* quote(part, safe=''): letters, digits and _.-~ stay; any other character
\* becomes % and the two hexadecimal digits of its code
Unreserved == AsciiLetters \cup {"0", "2", "5", "3", "A", "F", "_", ".", "-", "~"}

Code(c) == IF c = " " THEN <<"2", "0">>
           ELSE IF c = "%" THEN <<"2", "5">>
           ELSE IF c = "/" THEN <<"2", "F">>
           ELSE IF c = ":" THEN <<"3", "A">>
           ELSE IF c = "+" THEN <<"2", "B">>
           ELSE <<"0", "A">>    \* "\n"

RECURSIVE quote(_)
quote(part) ==
    IF part = <<>> THEN <<>>
    ELSE (IF part[1] \in Unreserved THEN <<part[1]>>
          ELSE <<"%">> \o Code(part[1])) \o quote(Tail(part))

\* unquote(part): % and two hexadecimal digits become the character of
\* that code; any other % stays
Coded == {" ", "%", "/", ":", "+", "\n"}

Decodes(pair) == \E c \in Coded : Code(c) = pair

RECURSIVE unquote(_)
unquote(part) ==
    IF part = <<>> THEN <<>>
    ELSE IF part[1] = "%" /\ Len(part) >= 3 /\ Decodes(SubSeq(part, 2, 3))
    THEN <<CHOOSE c \in Coded : Code(c) = SubSeq(part, 2, 3)>>
         \o unquote(DropFirst(part, 3))
    ELSE <<part[1]>> \o unquote(Tail(part))

MapParts(parts, encode) ==
    [i \in DOMAIN parts |-> IF encode THEN quote(parts[i]) ELSE unquote(parts[i])]

UrlEncodingStore_transform_key(self, key) ==
    LET parts == split(key, <<>>)
        encoded_parts == MapParts(parts, TRUE)
    IN  TKey(NoExc, join(encoded_parts))

UrlEncodingStore_reverse_transform_key(self, key) ==
    LET parts == split(key, <<>>)
        decoded_parts == MapParts(parts, FALSE)
    IN  join(decoded_parts)

\* self.transform_key(key) and self.reverse_transform_key(key), by class
transform_key(self, key) ==
    IF self.cls \in ValidatingClasses
    THEN KeyValidatingStore_transform_key(self, key)
    ELSE IF self.cls = "PrefixStore" THEN PrefixStore_transform_key(self, key)
    ELSE IF self.cls = "HashPrefixStore"
    THEN HashPrefixStore_transform_key(self, key)
    ELSE IF self.cls = "UrlEncodingStore"
    THEN UrlEncodingStore_transform_key(self, key)
    ELSE KeyTransformingStore_transform_key(self, key)

reverse_transform_key(self, key) ==
    IF self.cls = "PrefixStore"
    THEN PrefixStore_reverse_transform_key(self, key)
    ELSE IF self.cls = "HashPrefixStore"
    THEN HashPrefixStore_reverse_transform_key(self, key)
    ELSE IF self.cls = "UrlEncodingStore"
    THEN UrlEncodingStore_reverse_transform_key(self, key)
    ELSE KeyTransformingStore_reverse_transform_key(self, key)

\* The outcome of a call on a key-transforming store: calls lists the calls
\* made on the stores below it, outermost first, as [on, op, key].
KOutcome(store, exc, ret, calls) ==
    [store |-> store, exc |-> exc, ret |-> ret, calls |-> calls]

KCall(on, op, key) == [on |-> on.cls, op |-> op, key |-> key]

\* the outcome of a call on a store that is no key-transforming store
Plain(r) == KOutcome(r.store, r.exc, r.ret, <<>>)

\* the outcome of self.store.op(key), seen from self
Below(self, op, key, r) ==
    KOutcome([self EXCEPT !.store = r.store], r.exc, r.ret,
             <<KCall(self.store, op, key)>> \o r.calls)

RECURSIVE KPut(_, _, _)
RECURSIVE KGet(_, _)
RECURSIVE KExists(_, _)
RECURSIVE KDelete(_, _)
RECURSIVE KKeys(_)

\* a put that hands the key to the child and validates afterwards
KeyTransformingStore_put_then_transform(self, key, data) ==
    LET r == Below(self, "put", key, KPut(self.store, key, data))
        t == transform_key(self, key)
    IN  IF Raised(r) THEN r
        ELSE IF Raised(t) THEN KOutcome(r.store, t.exc, PyNone, r.calls)
        ELSE r

KeyTransformingStore_put(self, key, data) ==
    LET t == transform_key(self, key)
    IN  IF Raised(t) THEN KOutcome(self, t.exc, PyNone, <<>>)
        ELSE LET r == Below(self, "put", t.ret, KPut(self.store, t.ret, data))
             IN  KOutcome(r.store, r.exc, PyNone, r.calls)

KeyTransformingStore_get(self, key) ==
    LET t == transform_key(self, key)
    IN  IF Raised(t) THEN KOutcome(self, t.exc, PyNone, <<>>)
        ELSE Below(self, "get", t.ret, KGet(self.store, t.ret))

KeyTransformingStore_exists(self, key) ==
    LET t == transform_key(self, key)
    IN  IF Raised(t) THEN KOutcome(self, t.exc, PyNone, <<>>)
        ELSE Below(self, "exists", t.ret, KExists(self.store, t.ret))

KeyTransformingStore_delete(self, key) ==
    LET t == transform_key(self, key)
    IN  IF Raised(t) THEN KOutcome(self, t.exc, PyNone, <<>>)
        ELSE Below(self, "delete", t.ret, KDelete(self.store, t.ret))

\* a keys() that validates what it yields: the generator raises at the first
\* key the validator refuses
KeyTransformingStore_keys_validated(self) ==
    LET r == Below(self, "keys", PyNone, KKeys(self.store))
        refused == {key \in r.ret : Raised(transform_key(self, key))}
    IN  IF Raised(r) THEN r
        ELSE IF refused # {}
        THEN KOutcome(r.store,
                      transform_key(self, CHOOSE key \in refused : TRUE).exc,
                      PyNone, r.calls)
        ELSE KOutcome(r.store, NoExc,
                      {reverse_transform_key(self, key) : key \in r.ret},
                      r.calls)

\* the generator, drained: the set of what it yields
KeyTransformingStore_keys(self) ==
    LET r == Below(self, "keys", PyNone, KKeys(self.store))
    IN  IF Raised(r) THEN r
        ELSE KOutcome(r.store, NoExc,
                      {reverse_transform_key(self, key) : key \in r.ret},
                      r.calls)

HashPrefixStore_keys(self) == KeyTransformingStore_keys(self)

KPut(s, key, data) ==
    IF s.cls \in KeyTransformingClasses
    THEN KeyTransformingStore_put(s, key, data)
    ELSE Plain(Put(s, key, data))

KGet(s, key) ==
    IF s.cls \in KeyTransformingClasses THEN KeyTransformingStore_get(s, key)
    ELSE Plain(Get(s, key))

KExists(s, key) ==
    IF s.cls \in KeyTransformingClasses
    THEN KeyTransformingStore_exists(s, key)
    ELSE Plain(Exists(s, key))

KDelete(s, key) ==
    IF s.cls \in KeyTransformingClasses
    THEN KeyTransformingStore_delete(s, key)
    ELSE Plain(Delete(s, key))

KKeys(s) ==
    IF s.cls = "HashPrefixStore" THEN HashPrefixStore_keys(s)
    ELSE IF s.cls \in KeyTransformingClasses THEN KeyTransformingStore_keys(s)
    ELSE Plain(StoreKeys(s))

(* keys() called with keyword arguments; kwargs is the set of its          *)
(* <<name, value>> pairs.  Python binds the keywords to the parameters of  *)
(* the def before the body runs, and a def that names none of them and has *)
(* no ** parameter refuses the call with a TypeError.  DictStore,          *)
(* KeyTransformingStore and HashPrefixStore all define keys(self).         *)
KeysParameters(cls) == {}

Unexpected(cls, kwargs) == {kw \in kwargs : kw[1] \notin KeysParameters(cls)}

UnexpectedKeyword(cls, kwargs) ==
    TypeError((CHOOSE kw \in Unexpected(cls, kwargs) : TRUE)[1])

DictStore_keys_kwargs(self, kwargs) ==
    IF Unexpected(self.cls, kwargs) # {}
    THEN Outcome(self, UnexpectedKeyword(self.cls, kwargs), PyNone)
    ELSE DictStore_keys(self)

KeyTransformingStore_keys_kwargs(self, kwargs) ==
    IF Unexpected(self.cls, kwargs) # {}
    THEN KOutcome(self, UnexpectedKeyword(self.cls, kwargs), PyNone, <<>>)
    ELSE KKeys(self)

\* the store at the bottom of a stack of stores
RECURSIVE BaseStore(_)
BaseStore(s) == IF "store" \in DOMAIN s THEN BaseStore(s.store) ELSE s

----------------------------------------------------------------------------
(* A key-transforming store, or two nested, over an empty DictStore, and a *)
(* validating store over an empty DictStore.                               *)

SampleKeys ==
    {<<"k">>, <<"k", "/", " ">>, <<"%", "2", "0">>,
     <<"h", "t", "t", "p", ":", "k">>}

Prefixes == {<<>>, <<"p", "/">>}
Separators == {<<"/">>, <<":", ":">>}

\* hash_length up to one more than the digits there are
HashLengths == 0..(DigestLen + 1)

Transforming(store) ==
    {KeyTransformingStore(store), UrlEncodingStore(store)}
    \cup {PrefixStore(store, prefix) : prefix \in Prefixes}
    \cup {HashPrefixStore(store, n, sep) : n \in HashLengths, sep \in Separators}

Patterns ==
    {<<Item({"k"}, TRUE)>>, <<Item({"k"}, TRUE), End>>,
     <<Item({"h", "f"}, FALSE), Item({"t", "p"}, TRUE), Item({":"}, FALSE)>>}

Validating(store) ==
    {UrlValidatingStore(store)}
    \cup {RegexValidatingStore(store, pattern) : pattern \in Patterns}
    \cup {KeyValidatingStore(store, Predicate(accepts)) :
            accepts \in {{}, {<<"k">>}, SampleKeys}}

KeyStacks ==
    LET one == Transforming(DictStore(<<>>))
    IN  one \cup UNION {Transforming(s) : s \in one}
            \cup Validating(DictStore(<<>>))

KeyInit ==
    /\ key_store \in KeyStacks
    /\ scoped = NoStore
    /\ last = NoCall
    /\ tasks = <<>>
    /\ decorator = NoStore
    /\ from_store = NoStore
    /\ to_store = NoStore
    /\ stores = <<>>
    /\ built_stores = {}
    /\ registry = STORES
    /\ environ = <<>>
    /\ children = <<>>
    /\ main_store = DictStore(<<>>)
    /\ cache_store = DictStore(<<>>)
    /\ notifying_store = NoStore

\* the outcome of a call, with the store as the call found it
KeyLast(op, key, data, r) ==
    [op |-> op, key |-> key, data |-> data, exc |-> r.exc, ret |-> r.ret,
     calls |-> r.calls, before |-> key_store]

KeyStep(op, key, data, r) ==
    /\ last.op = "none"
    /\ key_store' = r.store
    /\ last' = KeyLast(op, key, data, r)
    /\ UNCHANGED <<wrapper_vars, children, main_store, cache_store, stores,
                   built_stores, environ, registry, notifying_store, scoped>>

KeyPut ==
    \E key \in SampleKeys, data \in Data :
        KeyStep("put", key, data, KPut(key_store, key, data))

KeyGet == \E key \in SampleKeys : KeyStep("get", key, PyNone, KGet(key_store, key))

KeyExists ==
    \E key \in SampleKeys :
        KeyStep("exists", key, PyNone, KExists(key_store, key))

KeyDelete ==
    \E key \in SampleKeys :
        KeyStep("delete", key, PyNone, KDelete(key_store, key))

KeyKeys == KeyStep("keys", PyNone, PyNone, KKeys(key_store))

KeywordSets == {{}, {<<"prefix", "test">>}}

\* keys(**kwargs) on the outermost store
KeyKeysKwargs ==
    \E kwargs \in KeywordSets :
        KeyStep("keys(**kwargs)", PyNone, kwargs,
                KeyTransformingStore_keys_kwargs(key_store, kwargs))

\* keys(**kwargs) on the DictStore at the bottom, which keys() leaves as it is
KeyBaseKeysKwargs ==
    \E kwargs \in KeywordSets :
        LET r == DictStore_keys_kwargs(BaseStore(key_store), kwargs)
        IN  KeyStep("base keys(**kwargs)", PyNone, kwargs,
                    KOutcome(key_store, r.exc, r.ret, <<>>))

KeyReturn ==
    /\ last.op # "none"
    /\ last' = NoCall
    /\ UNCHANGED <<wrapper_vars, children, main_store, cache_store, stores,
                   built_stores, environ, registry, notifying_store,
                   key_store, scoped>>

KeyNext ==
    \/ KeyPut
    \/ KeyGet
    \/ KeyExists
    \/ KeyDelete
    \/ KeyKeys
    \/ KeyKeysKwargs
    \/ KeyBaseKeysKwargs
    \/ KeyReturn

SpecKeys == KeyInit /\ [][KeyNext]_vars

----------------------------------------------------------------------------------
(* A store that fronts a backing store, or two nested, over a DictStore in *)
(* any state.                                                              *)

ShortKeys == {<<"k">>, <<"p", "k">>}

Payloads == {"v1", "s1", gzip_compress("v1")}

Fronting(store) ==
    {IdentityStore(store), ReadonlyStore(store), WriteonlyStore(store),
     LoggingStore(store), ExceptionLoggingStore(store),
     TransformingStore(store), TextEncodingStore(store), GzipStore(store)}

BackingStores ==
    {DictStore(d) : d \in UNION {[D -> Payloads] : D \in SUBSET ShortKeys}}

Decorators ==
    LET one == UNION {Fronting(b) : b \in BackingStores}
    IN  BackingStores \cup one \cup UNION {Fronting(s) : s \in one}
            \cup {PrefixStore(b, <<"p">>) : b \in BackingStores}
            \cup {AsyncTransformingStore(AsyncDictStore(b.objects), t, f) :
                     b \in BackingStores, t \in DataTransformers,
                     f \in BOOLEAN}

DecoratorInit ==
    /\ decorator \in Decorators
    /\ from_store = NoStore
    /\ to_store = NoStore
    /\ last = NoCall
    /\ tasks = <<>>
    /\ stores = <<>>
    /\ built_stores = {}
    /\ registry = STORES
    /\ environ = <<>>
    /\ children = <<>>
    /\ main_store = DictStore(<<>>)
    /\ cache_store = DictStore(<<>>)
    /\ notifying_store = NoStore
    /\ key_store = NoStore
    /\ scoped = NoStore

\* the outcome of a call, with the store as the call found it
DecoratorLast(op, key, data, r) ==
    [op |-> op, key |-> key, data |-> data, exc |-> r.exc, ret |-> r.ret,
     calls |-> r.calls, before |-> decorator]

DecoratorStep(op, key, data, r) ==
    /\ last.op = "none"
    /\ decorator' = r.store
    /\ last' = DecoratorLast(op, key, data, r)
    /\ UNCHANGED <<children, main_store, cache_store, stores, built_stores,
                   environ, registry, notifying_store, key_store, scoped,
                   from_store, to_store, tasks>>

DecoratorPut ==
    \E key \in ShortKeys, data \in Payloads :
        DecoratorStep("put", key, data, KPut(decorator, key, data))

DecoratorGet ==
    \E key \in ShortKeys :
        DecoratorStep("get", key, PyNone, KGet(decorator, key))

DecoratorExists ==
    \E key \in ShortKeys :
        DecoratorStep("exists", key, PyNone, KExists(decorator, key))

DecoratorDelete ==
    \E key \in ShortKeys :
        DecoratorStep("delete", key, PyNone, KDelete(decorator, key))

DecoratorKeys == DecoratorStep("keys", PyNone, PyNone, KKeys(decorator))

DecoratorReturn ==
    /\ last.op # "none"
    /\ last' = NoCall
    /\ UNCHANGED <<children, main_store, cache_store, stores, built_stores,
                   environ, registry, notifying_store, key_store, scoped,
                   wrapper_vars>>

DecoratorNext ==
    \/ DecoratorPut
    \/ DecoratorGet
    \/ DecoratorExists
    \/ DecoratorDelete
    \/ DecoratorKeys
    \/ DecoratorReturn

SpecDecorator == DecoratorInit /\ [][DecoratorNext]_vars

----------------------------------------------------------------------------
(* A put, and the same put once more, on a DictStore, on a MirroringStore  *)
(* over DictStores or on a CachingStore over DictStores.  The store the    *)
(* puts are made on is the one the initial state constructs.               *)

DictStores == {DictStore(d) : d \in Dicts}

\* the stores as a list: the DictStore, the children, the main store and
\* the cache store
Underlying == <<decorator, children, main_store, cache_store>>

PutInit ==
    /\ \/ /\ decorator \in DictStores
          /\ children = <<>>
          /\ main_store = NoStore
          /\ cache_store = NoStore
       \/ /\ decorator = NoStore
          /\ children \in UNION {[1..n -> DictStores] : n \in 1..MaxChildren}
          /\ main_store = NoStore
          /\ cache_store = NoStore
       \/ /\ decorator = NoStore
          /\ children = <<>>
          /\ main_store \in DictStores
          /\ cache_store \in DictStores
    /\ from_store = NoStore
    /\ to_store = NoStore
    /\ last = NoCall
    /\ tasks = <<>>
    /\ stores = <<>>
    /\ built_stores = {}
    /\ registry = STORES
    /\ environ = <<>>
    /\ notifying_store = NoStore
    /\ key_store = NoStore
    /\ scoped = NoStore

\* the class of the store the puts are made on
Receiver ==
    IF decorator.cls = "DictStore" THEN "DictStore"
    ELSE IF children # <<>> THEN "MirroringStore"
    ELSE "CachingStore"

\* store.put(key, data) on the receiver; op tells the first put from the
\* second
PutStep(op, key, data) ==
    /\ \/ /\ Receiver = "DictStore"
          /\ LET r == DictStore_put(decorator, key, data)
             IN  /\ decorator' = r.store
                 /\ last' = [op |-> op, key |-> key, data |-> data,
                             exc |-> r.exc, ret |-> r.ret, calls |-> <<>>,
                             before |-> Underlying]
          /\ UNCHANGED <<children, main_store, cache_store>>
       \/ /\ Receiver = "MirroringStore"
          /\ LET r == MirroringStore_put(children, key, data)
             IN  /\ children' = r.children
                 /\ last' = [op |-> op, key |-> key, data |-> data,
                             exc |-> r.exc, ret |-> r.ret, calls |-> <<>>,
                             before |-> Underlying]
          /\ UNCHANGED <<decorator, main_store, cache_store>>
       \/ /\ Receiver = "CachingStore"
          /\ LET r == CachingStore_put(main_store, cache_store, key, data)
             IN  /\ main_store' = r.main_store
                 /\ cache_store' = r.cache_store
                 /\ last' = [op |-> op, key |-> key, data |-> data,
                             exc |-> r.exc, ret |-> r.ret, calls |-> <<>>,
                             before |-> Underlying]
          /\ UNCHANGED <<decorator, children>>
    /\ UNCHANGED <<stores, built_stores, environ, registry, notifying_store,
                   key_store, scoped, from_store, to_store, tasks>>

PutOnce ==
    /\ last.op = "none"
    /\ \E key \in Keys, data \in Data : PutStep("put", key, data)

PutAgain ==
    /\ last.op = "put"
    /\ PutStep("put again", last.key, last.data)

PutReturn ==
    /\ last.op # "none"
    /\ last' = NoCall
    /\ UNCHANGED <<children, main_store, cache_store, stores, built_stores,
                   environ, registry, notifying_store, key_store, scoped,
                   wrapper_vars>>

PutNext ==
    \/ PutOnce
    \/ PutAgain
    \/ PutReturn

SpecPut == PutInit /\ [][PutNext]_vars

----------------------------------------------------------------------------
(* storage/utils.py and storage/aioutils.py: the utility functions for     *)
(* multi-store actions.  A for loop over keys visits them in some order;   *)
(* no call on the stores modelled here depends on the order.               *)

UOutcome(from, to, exc) ==
    [from_store |-> from, to_store |-> to, exc |-> exc, ret |-> PyNone]

\* the key a loop over the keys todo visits next
NextKey(todo) == CHOOSE key \in todo : TRUE

\* to_store.put(key, from_store.get(key)), then the rest of the loop
Transfer(from, to, key, rest(_, _)) ==
    LET g == Get(from, key)
    IN  IF g.exc # NoExc THEN UOutcome(g.store, to, g.exc)
        ELSE LET p == Put(to, key, g.ret)
             IN  IF p.exc # NoExc THEN UOutcome(g.store, p.store, p.exc)
                 ELSE rest(g.store, p.store)

RECURSIVE copy_store_loop(_, _, _, _)
copy_store_loop(from, to, todo, overwrite) ==
    IF todo = {} THEN UOutcome(from, to, NoExc)
    ELSE LET key == NextKey(todo)
             rest(f, t) == copy_store_loop(f, t, todo \ {key}, overwrite)
         IN  IF overwrite THEN Transfer(from, to, key, rest)
             ELSE LET e == Exists(to, key)
                  IN  IF e.exc # NoExc THEN UOutcome(from, e.store, e.exc)
                      ELSE IF ~e.ret THEN Transfer(from, e.store, key, rest)
                      ELSE rest(from, e.store)

\* a copy that skips the keys the target holds, whatever overwrite says
copy_store_never_overwrite(from, to, overwrite) ==
    copy_store_loop(from, to, StoreKeys(from).ret, FALSE)

copy_store(from, to, overwrite) ==
    LET k == StoreKeys(from)
    IN  IF k.exc # NoExc THEN UOutcome(k.store, to, k.exc)
        ELSE copy_store_loop(k.store, to, k.ret, overwrite)

async_copy_store(from, to, overwrite) == copy_store(from, to, overwrite)

RECURSIVE sync_put_loop(_, _, _)
sync_put_loop(from, to, todo) ==
    IF todo = {} THEN UOutcome(from, to, NoExc)
    ELSE LET key == NextKey(todo)
             rest(f, t) == sync_put_loop(f, t, todo \ {key})
         IN  Transfer(from, to, key, rest)

RECURSIVE sync_delete_loop(_, _, _)
sync_delete_loop(from, to, todo) ==
    IF todo = {} THEN UOutcome(from, to, NoExc)
    ELSE LET key == NextKey(todo)
             d == Delete(to, key)
         IN  IF d.exc # NoExc THEN UOutcome(from, d.store, d.exc)
             ELSE sync_delete_loop(from, d.store, todo \ {key})

\* a sync that never deletes from the target
sync_stores_keep(from, to, delete) ==
    sync_put_loop(from, to, StoreKeys(from).ret \ StoreKeys(to).ret)

sync_stores(from, to, delete) ==
    LET f == StoreKeys(from)
        t == StoreKeys(to)
    IN  IF f.exc # NoExc THEN UOutcome(f.store, to, f.exc)
        ELSE IF t.exc # NoExc THEN UOutcome(f.store, t.store, t.exc)
        ELSE LET from_keys == f.ret
                 to_keys == t.ret
                 r == sync_put_loop(f.store, t.store, from_keys \ to_keys)
             IN  IF r.exc # NoExc \/ ~delete THEN r
                 ELSE sync_delete_loop(r.from_store, r.to_store,
                                       to_keys \ from_keys)

\* async for key in to_store.keys(): if not await from_store.exists(key)
RECURSIVE async_sync_delete_loop(_, _, _)
async_sync_delete_loop(from, to, todo) ==
    IF todo = {} THEN UOutcome(from, to, NoExc)
    ELSE LET key == NextKey(todo)
             e == Exists(from, key)
         IN  IF e.exc # NoExc THEN UOutcome(e.store, to, e.exc)
             ELSE IF e.ret
             THEN async_sync_delete_loop(e.store, to, todo \ {key})
             ELSE LET d == Delete(to, key)
                  IN  IF d.exc # NoExc THEN UOutcome(e.store, d.store, d.exc)
                      ELSE async_sync_delete_loop(e.store, d.store,
                                                  todo \ {key})

\* the first loop of async_sync_stores is async_copy_store without
\* overwrite; the keys of the second are those the target yields then
async_sync_stores(from, to, delete) ==
    LET r == copy_store(from, to, FALSE)
    IN  IF r.exc # NoExc \/ ~delete THEN r
        ELSE LET t == StoreKeys(r.to_store)
             IN  IF t.exc # NoExc THEN UOutcome(r.from_store, t.store, t.exc)
                 ELSE async_sync_delete_loop(r.from_store, t.store, t.ret)

----------------------------------------------------------------------------
(* Two in-memory stores of one flavour, each in any state, and the utility *)
(* functions called on them.                                               *)

CopyKeys == {"a", "b", "c"}

CopyDicts == UNION {[D -> Data] : D \in SUBSET CopyKeys}

CopyInit ==
    /\ \/ /\ from_store \in {DictStore(d) : d \in CopyDicts}
          /\ to_store \in {DictStore(d) : d \in CopyDicts}
       \/ /\ from_store \in {AsyncDictStore(d) : d \in CopyDicts}
          /\ to_store \in {AsyncDictStore(d) : d \in CopyDicts}
    /\ decorator = NoStore
    /\ last = NoCall
    /\ tasks = <<>>
    /\ stores = <<>>
    /\ built_stores = {}
    /\ registry = STORES
    /\ environ = <<>>
    /\ children = <<>>
    /\ main_store = DictStore(<<>>)
    /\ cache_store = DictStore(<<>>)
    /\ notifying_store = NoStore
    /\ key_store = NoStore
    /\ scoped = NoStore

\* a utility function returns r; data is its flag
CopyStep(op, flag, r) ==
    /\ last.op = "none"
    /\ from_store' = r.from_store
    /\ to_store' = r.to_store
    /\ last' = [op |-> op, key |-> PyNone, data |-> flag, exc |-> r.exc,
                ret |-> r.ret, calls |-> <<>>,
                before |-> [from_store |-> from_store, to_store |-> to_store]]
    /\ UNCHANGED <<children, main_store, cache_store, stores, built_stores,
                   environ, registry, notifying_store, key_store, scoped,
                   decorator, tasks>>

Copy ==
    /\ from_store.cls = "DictStore"
    /\ \E overwrite \in BOOLEAN :
           CopyStep("copy_store", overwrite,
                    copy_store(from_store, to_store, overwrite))

Sync ==
    /\ from_store.cls = "DictStore"
    /\ \E delete \in BOOLEAN :
           CopyStep("sync_stores", delete,
                    sync_stores(from_store, to_store, delete))

AsyncCopy ==
    /\ from_store.cls = "AsyncDictStore"
    /\ \E overwrite \in BOOLEAN :
           CopyStep("copy_store", overwrite,
                    async_copy_store(from_store, to_store, overwrite))

AsyncSync ==
    /\ from_store.cls = "AsyncDictStore"
    /\ \E delete \in BOOLEAN :
           CopyStep("sync_stores", delete,
                    async_sync_stores(from_store, to_store, delete))

CopyReturn ==
    /\ last.op # "none"
    /\ last' = NoCall
    /\ UNCHANGED <<children, main_store, cache_store, stores, built_stores,
                   environ, registry, notifying_store, key_store, scoped,
                   wrapper_vars>>

CopyNext ==
    \/ Copy
    \/ Sync
    \/ AsyncCopy
    \/ AsyncSync
    \/ CopyReturn

SpecCopy == CopyInit /\ [][CopyNext]_vars

----------------------------------------------------------------------
(* storage/aiodb.py and storage/aioutils.py: the async stores under        *)
(* `async with`.  Only the connection of a store is modelled here: a put   *)
(* is served or raises, by the connection it finds.  events lists the      *)
(* __aenter__ and __aexit__ calls made, each with the path of the store    *)
(* from the store the statement names (<<>> is that store, <<2>> its       *)
(* second child).                                                          *)

MaxScoped == 3

SOutcome(store, exc, ret, events) ==
    [store |-> store, exc |-> exc, ret |-> ret, events |-> events]

OperationalError(msg) == Exc("OperationalError", msg, "")

\* fails: the await of open() that raises for this db_path, if any
AsyncSqliteStore(fails) ==
    [cls |-> "AsyncSqliteStore", conn |-> PyNone, fails |-> fails]

AsyncSqliteStore_open(self) ==
    IF self.fails = "connect"
    THEN SOutcome(self, OperationalError("unable to open database file"),
                  PyNone, <<>>)
    ELSE IF self.fails = "execute"
    THEN SOutcome([self EXCEPT !.conn = "conn"],
                  OperationalError("CREATE TABLE failed"), PyNone, <<>>)
    ELSE SOutcome([self EXCEPT !.conn = "conn"], NoExc, PyNone, <<>>)

AsyncSqliteStore_close(self) ==
    IF self.conn = PyNone
    THEN SOutcome(self,
                  AttributeError("'NoneType' object has no attribute 'close'"),
                  PyNone, <<>>)
    ELSE SOutcome([self EXCEPT !.conn = PyNone], NoExc, PyNone, <<>>)

AsyncSqliteStore___aenter__(self, path) ==
    LET r == AsyncSqliteStore_open(self)
    IN  SOutcome(r.store, r.exc, PyNone, << <<path, "__aenter__">> >>)

AsyncSqliteStore___aexit__(self, path) ==
    LET r == AsyncSqliteStore_close(self)
    IN  SOutcome(r.store, r.exc, PyNone, << <<path, "__aexit__">> >>)

AsyncSqliteStore_put(self, key, data) ==
    IF self.conn = PyNone
    THEN SOutcome(self,
                  AttributeError("'NoneType' object has no attribute 'execute'"),
                  PyNone, <<>>)
    ELSE SOutcome(self, NoExc, PyNone, <<>>)

AsyncFanoutStore(ch) == [cls |-> "AsyncFanoutStore", children |-> ch]

AsyncCachingStore(main, cache) ==
    [cls |-> "AsyncCachingStore", main_store |-> main, cache_store |-> cache]

AsyncPrefixStore(store, prefix) ==
    [cls |-> "AsyncPrefixStore", store |-> store, prefix |-> prefix]

AsyncGzipStore(store) == [cls |-> "AsyncGzipStore", store |-> store]

RECURSIVE APut(_, _, _)

\* for child in self.children: await child.put(key, data)
RECURSIVE AsyncFanoutStore_put_loop(_, _, _, _)
AsyncFanoutStore_put_loop(self, i, key, data) ==
    IF i > Len(self.children)
    THEN SOutcome(self, NoExc, PyNone, <<>>)
    ELSE LET r == APut(self.children[i], key, data)
             self2 == [self EXCEPT !.children[i] = r.store]
         IN  IF r.exc # NoExc THEN SOutcome(self2, r.exc, PyNone, <<>>)
             ELSE AsyncFanoutStore_put_loop(self2, i + 1, key, data)

AsyncFanoutStore_put(self, key, data) ==
    AsyncFanoutStore_put_loop(self, 1, key, data)

AsyncCachingStore_put(self, key, data) ==
    LET m == APut(self.main_store, key, data)
        self2 == [self EXCEPT !.main_store = m.store]
    IN  IF m.exc # NoExc THEN SOutcome(self2, m.exc, PyNone, <<>>)
        ELSE LET c == APut(self.cache_store, key, data)
             IN  SOutcome([self2 EXCEPT !.cache_store = c.store], c.exc,
                          PyNone, <<>>)

\* AsyncTransformingStore.put and AsyncKeyTransformingStore.put, as the
\* connection below sees them: neither the key nor the payload matters to it
AsyncDecorator_put(self, key, data) ==
    LET r == APut(self.store, key, data)
    IN  SOutcome([self EXCEPT !.store = r.store], r.exc, PyNone, <<>>)

APut(s, key, data) ==
    IF s.cls = "AsyncSqliteStore" THEN AsyncSqliteStore_put(s, key, data)
    ELSE IF s.cls = "AsyncFanoutStore" THEN AsyncFanoutStore_put(s, key, data)
    ELSE IF s.cls = "AsyncCachingStore"
    THEN AsyncCachingStore_put(s, key, data)
    ELSE AsyncDecorator_put(s, key, data)

\* the classes that define __aenter__ and __aexit__
AsyncContextManagers == {"AsyncSqliteStore"}

\* `async with s:` up to the body: a class without __aenter__ or __aexit__
\* makes the statement raise TypeError before anything is entered
async_with_enter(s) ==
    IF s.cls \notin AsyncContextManagers
    THEN SOutcome(s,
                  Exc("TypeError", "object does not support the asynchronous context manager protocol", s.cls),
                  PyNone, <<>>)
    ELSE AsyncSqliteStore___aenter__(s, <<>>)

\* the end of the body of `async with s:`, reached normally or by an
\* exception of the body, which __aexit__ lets through
async_with_exit(s) == AsyncSqliteStore___aexit__(s, <<>>)

----------------------------------------------------------------------------
(* An async store under `async with`, and puts inside and outside the      *)
(* statement.                                                              *)

Fails == {"none", "connect", "execute"}

Databases == {AsyncSqliteStore(fails) : fails \in Fails}

ScopedStores ==
    Databases
    \cup {AsyncPrefixStore(s, "prefix/") : s \in Databases}
    \cup {AsyncGzipStore(s) : s \in Databases}
    \cup {AsyncGzipStore(AsyncPrefixStore(s, "prefix/")) : s \in Databases}
    \cup {AsyncFanoutStore(ch) :
            ch \in UNION {[1..n -> Databases] : n \in 0..MaxScoped}}
    \cup {AsyncCachingStore(m, c) : m \in Databases, c \in Databases}

ScopeInit ==
    /\ scoped \in {[store |-> s, entered |-> FALSE] : s \in ScopedStores}
    /\ last = NoCall
    /\ tasks = <<>>
    /\ decorator = NoStore
    /\ from_store = NoStore
    /\ to_store = NoStore
    /\ stores = <<>>
    /\ built_stores = {}
    /\ registry = STORES
    /\ environ = <<>>
    /\ children = <<>>
    /\ main_store = DictStore(<<>>)
    /\ cache_store = DictStore(<<>>)
    /\ notifying_store = NoStore
    /\ key_store = NoStore

ScopeLast(op, r) ==
    [op |-> op, key |-> PyNone, data |-> PyNone, exc |-> r.exc,
     ret |-> r.ret, calls |-> r.events, before |-> scoped]

ScopeStep(op, r, entered) ==
    /\ last.op = "none"
    /\ scoped' = [store |-> r.store, entered |-> entered]
    /\ last' = ScopeLast(op, r)
    /\ UNCHANGED <<wrapper_vars, children, main_store, cache_store, stores,
                   built_stores, environ, registry, notifying_store,
                   key_store>>

\* async with store:
ScopeEnter ==
    /\ ~scoped.entered
    /\ LET r == async_with_enter(scoped.store)
       IN  ScopeStep("enter", r, r.exc = NoExc)

\* await store.put(key, data), inside the statement or outside it
ScopePut ==
    \E key \in Keys, data \in Data :
        ScopeStep("put", APut(scoped.store, key, data), scoped.entered)

\* the body ends, normally or by an exception
ScopeExit ==
    /\ scoped.entered
    /\ \E raised \in BOOLEAN :
        LET r == async_with_exit(scoped.store)
        IN  ScopeStep(IF raised THEN "exit by exception" ELSE "exit", r, FALSE)

ScopeReturn ==
    /\ last.op # "none"
    /\ last' = NoCall
    /\ UNCHANGED <<wrapper_vars, children, main_store, cache_store, stores,
                   built_stores, environ, registry, notifying_store,
                   key_store, scoped>>

ScopeNext ==
    \/ ScopeEnter
    \/ ScopePut
    \/ ScopeExit
    \/ ScopeReturn

SpecScope == ScopeInit /\ [][ScopeNext]_vars

----------------------------------------------------------------------------
(* Properties of MirroringStore.                                           *)

Called(i, method) == \E n \in DOMAIN last.calls : last.calls[n] = <<i, method>>

\* the children that hold the key before the call
Holders(ch, key) == {i \in DOMAIN ch : Holds(ch[i], key)}

First(S) == CHOOSE i \in S : \A j \in S : i <= j

\* C3: after MirroringStore.put(key, data) returns normally, every child
\* reports exists(key) true and get(key) returns data, whatever the number of
\* children and whatever they held before.
C3_MirrorPutReachesEveryChild ==
    Returned("put") =>
        \A i \in DOMAIN children :
            /\ Exists(children[i], last.key).ret = TRUE
            /\ Get(children[i], last.key).exc = NoExc
            /\ Get(children[i], last.key).ret = last.data

\* a put over MaxChildren children has returned, and it overwrote nothing but
\* wrote every child
C3_Witness ==
    /\ Returned("put")
    /\ Len(children) = MaxChildren
    /\ last.calls = [i \in 1..MaxChildren |-> <<i, "put">>]

\* C4: MirroringStore.put writes the children in list order and stops at the
\* first child whose put raises: that error is the one the caller gets, the
\* children before it hold the new value, and the children after it are never
\* written and keep their state.
C4_MirrorPutAbortsAtFirstFailure ==
    [][last'.op = "put" =>
        LET key == last'.key
            data == last'.data
            raising == {i \in DOMAIN children :
                           Put(children[i], key, data).exc # NoExc}
            stop == IF raising = {} THEN Len(children) ELSE First(raising)
        IN  /\ last'.calls = [i \in 1..stop |-> <<i, "put">>]
            /\ raising = {} => last'.exc = NoExc
            /\ raising # {} =>
                 /\ last'.exc = Put(children[stop], key, data).exc
                 /\ \A j \in 1..(stop - 1) :
                        /\ Get(children'[j], key).ret = data
                        /\ children'[j] = Put(children[j], key, data).store
                 /\ \A j \in (stop + 1)..Len(children) :
                        children'[j] = children[j]
            /\ Len(children') = Len(children)
    ]_vars

\* the put of the second of three children raised: the first was written, the
\* third was not called
C4_Witness ==
    /\ last.op = "put"
    /\ last.exc = NotImplementedError("store is read-only")
    /\ Len(children) = 3
    /\ children[2].cls = "ReadonlyStore"
    /\ last.calls = << <<1, "put">>, <<2, "put">> >>
    /\ Get(children[1], last.key).ret = last.data
    /\ Get(children[3], last.key).ret # last.data

\* C5: MirroringStore.get(key) returns the value of the lowest-index child
\* that holds the key, whatever later children hold, and exists(key) is true
\* iff some child holds it; no child after that first holder is consulted; when
\* no child holds the key, get raises KeyError(key) and exists returns False.
C5_MirrorReadsFirstHolder ==
    [][last'.op \in {"get", "exists"} =>
        LET key == last'.key
            holders == Holders(children, key)
        IN  /\ holders = {} =>
                 /\ last'.op = "get" => last'.exc = KeyError(key)
                 /\ last'.op = "exists" =>
                        last'.exc = NoExc /\ last'.ret = FALSE
            /\ holders # {} =>
                 /\ last'.exc = NoExc
                 /\ last'.op = "get" =>
                        last'.ret = Contents(children[First(holders)])[key]
                 /\ last'.op = "exists" => last'.ret = TRUE
                 /\ \A n \in DOMAIN last'.calls :
                        last'.calls[n][1] <= First(holders)
    ]_vars

\* a get answered by the second of three children, while the third holds a
\* different value
C5_Witness ==
    /\ Returned("get")
    /\ Len(children) = 3
    /\ ~Holds(children[1], last.key)
    /\ Holds(children[2], last.key)
    /\ Holds(children[3], last.key)
    /\ Contents(children[3])[last.key] # Contents(children[2])[last.key]
    /\ last.ret = Contents(children[2])[last.key]
    /\ ~Called(3, "exists")

\* C6: MirroringStore.delete(key) deletes the key from every child that holds
\* it, so that no child holds it afterwards; a child that does not hold the key
\* is not asked to delete and raises nothing; when no child holds the key the
\* call returns normally and changes nothing.
C6_MirrorDeleteOnlyHolders ==
    [][last'.op = "delete" =>
        LET key == last'.key
            holders == Holders(children, key)
            raising == {i \in holders : Delete(children[i], key).exc # NoExc}
        IN  /\ \A n \in DOMAIN last'.calls :
                 last'.calls[n][2] = "delete" => last'.calls[n][1] \in holders
            /\ \A i \in DOMAIN children \ holders : children'[i] = children[i]
            /\ raising = {} =>
                 /\ last'.exc = NoExc
                 /\ Holders(children', key) = {}
                 /\ \A i \in holders :
                        \E n \in DOMAIN last'.calls :
                            last'.calls[n] = <<i, "delete">>
            /\ holders = {} => last'.exc = NoExc /\ children' = children
    ]_vars

\* a delete over three children of which the second did not hold the key: it
\* returned normally, having deleted from the first and the third only
C6_Witness ==
    /\ Returned("delete")
    /\ Len(children) = 3
    /\ Called(1, "delete")
    /\ ~Called(2, "delete")
    /\ Called(3, "delete")
    /\ Holders(children, last.key) = {}

----------------------------------------------------------------------------
(* Properties of CachingStore.                                             *)

CalledOn(calls, store) == \E n \in DOMAIN calls : calls[n][1] = store

\* C1: after CachingStore.put(key, data) returns normally, main_store.get(key),
\* cache_store.get(key) and CachingStore.get(key) all return data, whatever
\* main and cache held before.
C1_CachePutCoherent ==
    Returned("put") =>
        LET key == last.key
            m == Get(main_store, key)
            c == Get(cache_store, key)
            g == CachingStore_get(main_store, cache_store, key)
        IN  /\ m.exc = NoExc /\ m.ret = last.data
            /\ c.exc = NoExc /\ c.ret = last.data
            /\ g.exc = NoExc /\ g.ret = last.data

\* a put has returned, and a key it did not write differs between main and
\* cache
C1_Witness ==
    /\ Returned("put")
    /\ last.calls = << <<"main", "put">>, <<"cache", "put">> >>
    /\ \E k \in Keys \ {last.key} :
           /\ Holds(main_store, k)
           /\ Holds(cache_store, k)
           /\ Contents(main_store)[k] # Contents(cache_store)[k]

\* C2: CachingStore.get(key) reads through the cache: (1) a key the cache
\* holds is answered with the cache's value and main is not read, even when
\* main holds another value; (2) a key the cache lacks and main holds is
\* answered with main's value, and afterwards the cache holds it with that
\* value while main is unchanged; (3) a key neither holds raises KeyError(key)
\* and leaves the cache unchanged.
C2_CacheGetReadThrough ==
    [][last'.op = "get" =>
        LET key == last'.key
        IN  /\ Holds(cache_store, key) =>
                 /\ last'.exc = NoExc
                 /\ last'.ret = Contents(cache_store)[key]
                 /\ ~CalledOn(last'.calls, "main")
                 /\ main_store' = main_store
                 /\ cache_store' = cache_store
            /\ (/\ ~Holds(cache_store, key)
                /\ Holds(main_store, key)
                /\ Put(cache_store, key, Contents(main_store)[key]).exc = NoExc)
               =>
                 /\ last'.exc = NoExc
                 /\ last'.ret = Contents(main_store)[key]
                 /\ Holds(cache_store', key)
                 /\ Contents(cache_store')[key] = Contents(main_store)[key]
                 /\ main_store' = main_store
            /\ (~Holds(cache_store, key) /\ ~Holds(main_store, key)) =>
                 /\ last'.exc = KeyError(key)
                 /\ cache_store' = cache_store
                 /\ main_store' = main_store
    ]_vars

\* a get missed the cache, read main and populated the cache
C2_Witness ==
    /\ Returned("get")
    /\ last.calls =
         << <<"cache", "exists">>, <<"main", "get">>, <<"cache", "put">> >>
    /\ Holds(cache_store, last.key)
    /\ Contents(cache_store)[last.key] = last.ret
    /\ Contents(main_store)[last.key] = last.ret

\* C19: CachingStore.put(key, data) calls main_store.put first and
\* cache_store.put only after it has returned: when main's put raises, that
\* exception is what put raises and the cache is not called and is as
\* before; whenever the put has changed the cache, main holds data for key.
C19_PutMainBeforeCache ==
    [][last'.op = "put" =>
        LET key == last'.key
            data == last'.data
            m == Put(main_store, key, data)
        IN  /\ last'.calls[1] = <<"main", "put">>
            /\ main_store' = m.store
            /\ IF m.exc # NoExc
               THEN /\ last'.exc = m.exc
                    /\ ~CalledOn(last'.calls, "cache")
                    /\ cache_store' = cache_store
               ELSE last'.calls = << <<"main", "put">>, <<"cache", "put">> >>
            /\ cache_store' # cache_store =>
                 /\ Holds(main_store', key)
                 /\ Contents(main_store')[key] = data
    ]_vars

\* main's put has raised on a key that main lacks, and the cache still
\* holds nothing for the key
C19_Witness ==
    /\ last.op = "put"
    /\ last.exc = NotImplementedError("store is read-only")
    /\ last.calls = << <<"main", "put">> >>
    /\ cache_store.cls = "DictStore"
    /\ ~Holds(main_store, last.key)
    /\ ~Holds(cache_store, last.key)

\* C20: CachingStore.clear never calls main and leaves main as it was;
\* clear() that returns leaves the cache without keys; clear(key) that
\* returns leaves the cache without key and with every other key as before,
\* and returns without a delete when the cache lacks key.
C20_ClearLeavesMain ==
    [][last'.op = "clear" =>
        LET key == last'.key
            old == Contents(cache_store)
            new == Contents(cache_store')
        IN  /\ main_store' = main_store
            /\ ~CalledOn(last'.calls, "main")
            /\ (key = PyNone /\ last'.exc = NoExc) => DOMAIN new = {}
            /\ (key # PyNone /\ last'.exc = NoExc) => new = DictDel(old, key)
            /\ (key # PyNone /\ key \notin DOMAIN old) =>
                 /\ last'.exc = NoExc
                 /\ last'.calls = << <<"cache", "exists">> >>
                 /\ cache_store' = cache_store
    ]_vars

\* clear() has emptied a cache of two keys, and main holds both
C20_Witness ==
    /\ Returned("clear")
    /\ last.key = PyNone
    /\ Len(last.calls) = 3
    /\ DOMAIN Contents(cache_store) = {}
    /\ DOMAIN Contents(main_store) = Keys

----------------------------------------------------------------------------
(* Properties of StoreFactory.build.                                       *)

ListTypes == {"MirroringStore", "AsyncFanoutStore"}
CacheTypes == {"CachingStore", "AsyncCachingStore"}

\* the names a definition gives as its base
Refs(defs, n) ==
    IF n \in DOMAIN defs
    THEN {defs[n].base.refs[i] : i \in DOMAIN defs[n].base.refs} \ {NoEntry}
    ELSE {}

\* the names reachable from the names of S along "is base of", S included
RECURSIVE ReachFrom(_, _)
ReachFrom(defs, S) ==
    LET T == S \cup UNION {Refs(defs, n) : n \in S}
    IN  IF T = S THEN S ELSE ReachFrom(defs, T)

\* the definitions that are their own base, directly or transitively
OnCycle(defs) == {n \in DOMAIN defs : n \in ReachFrom(defs, Refs(defs, n))}

CycleReachable(defs, n) == ReachFrom(defs, {n}) \cap OnCycle(defs) # {}

\* a definition whose type is registered and whose base has the shape its
\* type takes
ShapeFits(d) ==
    /\ d.type \in DOMAIN STORES
    /\ d.base.shape = "absent" => STORES[d.type].required = {}
    /\ d.base.shape = "str" => STORES[d.type].required = {"store"}
    /\ d.base.shape = "list" => d.type \in ListTypes
    /\ d.base.shape = "dict" =>
           /\ d.type \in CacheTypes
           /\ NoEntry \notin {d.base.refs[1], d.base.refs[2]}

\* every definition reachable from n is defined and fits
WellFormedFrom(defs, n) ==
    \A x \in ReachFrom(defs, {n}) : x \in DOMAIN defs /\ ShapeFits(defs[x])

\* C7: when a definition reachable from the requested name is its own base,
\* directly or transitively, build() fails with the ConfigError that names a
\* definition on the cycle, and returns no store.  Stated for the first
\* build() of a factory (nothing is marked before the call) and for
\* configurations that are otherwise well formed.
C7_CycleErrorNamesCycle ==
    [][(/\ last'.op = "build"
        /\ built_stores = {}
        /\ WellFormedFrom(stores, last'.key)
        /\ CycleReachable(stores, last'.key))
       =>
           /\ last'.exc.type = "ConfigError"
           /\ last'.exc.msg = "Recursive store definition found"
           /\ last'.exc.arg \in OnCycle(stores)
    ]_vars

\* what holds of the code: build() of a name from which a cycle is reachable
\* returns no store, from any state of the factory
C7_CyclicNeverBuilds ==
    (last.op = "build" /\ CycleReachable(stores, last.key))
        => last.exc # NoExc

\* C8: a build(name) made after an earlier build(name) of the same acyclic
\* definition has returned succeeds again.  build(name) on a new factory marks
\* exactly the names reachable from name, so the call is such a second call
\* when exactly these names are marked before it.
C8_SecondBuildSucceeds ==
    [][(/\ last'.op = "build"
        /\ build(registry, stores, last'.key, {}, <<>>).exc = NoExc
        /\ built_stores = ReachFrom(stores, {last'.key}))
       => last'.exc = NoExc
    ]_vars

\* what holds of the code: a name that is marked is never built again
C8_MarkedNeverBuilds ==
    [][(last'.op = "build" /\ last'.key \in built_stores)
       => last'.exc = ConfigError("Recursive store definition found",
                                  last'.key)
    ]_vars

\* the place of a definition among the constructor calls of a build()
Pos(calls, n) == CHOOSE i \in DOMAIN calls : calls[i] = n

Constructed(calls) == {calls[i] : i \in DOMAIN calls}

\* the rule of build() for the bases a type takes: what is injected into the
\* constructor of definition n, of definition d, by a build() that ended with
\* exc and ret after the constructor calls calls
InjectedByShape(n, d, exc, ret, calls) ==
    LET b == d.base
        ok == exc = NoExc
        cfg == ret.config
    IN  /\ b.shape = "absent" =>
            /\ calls = <<n>>
            /\ ok => DOMAIN cfg = {}
        /\ (b.shape = "str" /\ ok) =>
            /\ DOMAIN cfg = {"store"}
            /\ cfg.store.name = b.refs[1]
            /\ Pos(calls, b.refs[1]) < Pos(calls, n)
        /\ (b.shape = "list" /\ d.type \in ListTypes /\ ok) =>
            /\ DOMAIN cfg = {"children"}
            /\ Len(cfg.children) = Len(b.refs)
            /\ \A i \in DOMAIN b.refs :
                   /\ cfg.children[i].name = b.refs[i]
                   /\ Pos(calls, b.refs[i]) < Pos(calls, n)
                   /\ \A j \in DOMAIN b.refs :
                          i < j => Pos(calls, b.refs[i]) < Pos(calls, b.refs[j])
        /\ (b.shape = "dict" /\ d.type \in CacheTypes /\ ok) =>
            /\ DOMAIN cfg = {"main_store", "cache_store"}
            /\ cfg.main_store.name = b.refs[1]
            /\ cfg.cache_store.name = b.refs[2]
            /\ Pos(calls, b.refs[1]) < Pos(calls, b.refs[2])
            /\ Pos(calls, b.refs[2]) < Pos(calls, n)

\* a base of a shape that the type of d does not take
WrongShape(d) ==
    \/ d.base.shape = "list" /\ d.type \notin ListTypes
    \/ d.base.shape = "dict" /\ d.type \notin CacheTypes

RejectedByShape(n, d, exc, calls) ==
    /\ exc = ConfigError("Invalid base store configuration", d.type)
    /\ n \notin Constructed(calls)

\* a build() that gets as far as the base of the requested definition: the
\* name is not marked, it is defined and its type is registered
ResolvesBase(n) ==
    /\ n \notin built_stores
    /\ n \in DOMAIN stores
    /\ stores[n].type \in DOMAIN STORES

\* C10: build() resolves the base by its shape: an absent base injects no
\* child; a string base is built and injected as store; a list base on a
\* list type is built in list order and injected as children in that order;
\* a mapping base on a cache-pair type has its main_store and cache_store
\* entries built and injected under these names; a list or mapping base on
\* any other type fails with the ConfigError naming the store type, and the
\* constructor of that definition is not called.
C10_BaseResolvedByShape ==
    [][(last'.op = "build" /\ ResolvesBase(last'.key)) =>
          LET n == last'.key
              d == stores[n]
          IN  /\ InjectedByShape(n, d, last'.exc, last'.ret, last'.calls)
              /\ WrongShape(d) => RejectedByShape(n, d, last'.exc, last'.calls)
    ]_vars

\* what holds of the code: the same, with the empty mapping taken as an
\* absent base (build() compares the base with {} before it looks at its
\* shape)
C10_NonEmptyBaseResolvedByShape ==
    [][(last'.op = "build" /\ ResolvesBase(last'.key)) =>
          LET n == last'.key
              d == stores[n]
          IN  /\ InjectedByShape(n, d, last'.exc, last'.ret, last'.calls)
              /\ (WrongShape(d) /\ d.base.refs # <<NoEntry, NoEntry>>) =>
                     RejectedByShape(n, d, last'.exc, last'.calls)
              /\ d.base.refs = <<NoEntry, NoEntry>> =>
                     last'.calls = <<n>>
    ]_vars

\* a MirroringStore over two children has been built, children in list order
C10_Witness ==
    /\ last.op = "build"
    /\ last.exc = NoExc
    /\ last.ret.type = "MirroringStore"
    /\ Len(last.ret.config.children) = 2
    /\ last.ret.config.children[1].name = "b"
    /\ last.ret.config.children[2].name = "c"
    /\ last.calls = <<"b", "c", "a">>

\* the requested definition is malformed: its type is not registered, or its
\* base is a name that has no definition
Malformed(defs, n) ==
    /\ n \in DOMAIN defs
    /\ \/ defs[n].type \notin DOMAIN STORES
       \/ /\ defs[n].type \in DOMAIN STORES
          /\ defs[n].base.shape = "str"
          /\ defs[n].base.refs[1] \notin DOMAIN defs

\* C11: the first build() of a factory, of a definition whose type is not in
\* the registry or whose base names a definition that does not exist, fails
\* with ConfigError and with no other kind of error.
C11_MalformedIsConfigError ==
    [][(/\ last'.op = "build"
        /\ built_stores = {}
        /\ Malformed(stores, last'.key))
       => last'.exc.type = "ConfigError"
    ]_vars

\* what holds of the code: such a build() fails with the KeyError of the
\* lookup, on the type or on the name
C11_MalformedIsKeyError ==
    [][(/\ last'.op = "build"
        /\ built_stores = {}
        /\ Malformed(stores, last'.key))
       => /\ last'.exc.type = "KeyError"
          /\ last'.exc.arg =
                 IF stores[last'.key].type \notin DOMAIN STORES
                 THEN stores[last'.key].type
                 ELSE stores[last'.key].base.refs[1]
    ]_vars

----------------------------------------------------------------------------
(* Properties of StoreFactory._resolve_values.                             *)

\* a variable name: a letter or underscore, then letters, digits, underscores
IsName(cs) ==
    /\ cs # <<>>
    /\ cs[1] \in NameStart
    /\ \A i \in DOMAIN cs : cs[i] \in NameChar

\* the ends p of a name that make s exactly ${VAR} or ${VAR:-default}: s is
\* "${", the name s[3..p], then "}" or ":-", a default without "}", and "}"
FormEnds(s) ==
    {p \in 3..(Len(s) - 1) :
        /\ s[1] = "$" /\ s[2] = "{" /\ s[Len(s)] = "}"
        /\ IsName(SubSeq(s, 3, p))
        /\ \/ p = Len(s) - 1
           \/ /\ p + 2 <= Len(s) - 1
              /\ s[p + 1] = ":" /\ s[p + 2] = "-"
              /\ \A i \in (p + 3)..(Len(s) - 1) : s[i] # "}"}

\* what interpolation is to make of the string s, when form is the string
\* whose form decides: the value of VAR, the default, the error naming VAR,
\* or s as it is
Interpolated(s, form, env) ==
    IF FormEnds(form) = {}
    THEN ROutcome(NoExc, Str(s))
    ELSE LET p == CHOOSE q \in FormEnds(form) : TRUE
             name == ToStr(SubSeq(form, 3, p))
         IN  IF name \in DOMAIN env
             THEN ROutcome(NoExc, Str(env[name]))
             ELSE IF p = Len(form) - 1
             THEN ROutcome(ConfigError("Environment variable not found", name),
                           PyNone)
             ELSE ROutcome(NoExc, Str(SubSeq(form, p + 3, Len(form) - 1)))

\* the latest call was _resolve_values on a structure around last.data, and
\* its outcome is the structure around e, or the exception of e
ResolvedAs(e) ==
    IF last.key = "key" \/ last.key = "other"
    THEN /\ last.exc = NoExc
         /\ last.ret = IF last.key = "other" THEN Other(7)
                       ELSE Value("key", last.data, Str(last.data))
    ELSE IF e.exc # NoExc
    THEN last.exc = e.exc
    ELSE /\ last.exc = NoExc
         /\ last.ret = Value(last.key, last.data, e.ret)

\* C9: a config string that is exactly ${VAR} or ${VAR:-default}, at any
\* depth inside lists and dicts, resolves to the value of VAR when VAR is set
\* (also to the empty string), to the default when VAR is unset and a default
\* is given, and fails with the ConfigError naming VAR when VAR is unset and
\* no default is given; every other value is returned unchanged.
C9_InterpolatesExactForms ==
    last.op = "resolve" =>
        ResolvedAs(Interpolated(last.data, last.data, environ))

\* s without the newline that ends it, if one does
Chomp(s) ==
    IF s # <<>> /\ s[Len(s)] = "\n" THEN SubSeq(s, 1, Len(s) - 1) ELSE s

\* what holds of the code: the same, with a string that is one of the two
\* forms followed by one newline interpolated as that form is
C9_InterpolatesUpToNewline ==
    last.op = "resolve" =>
        ResolvedAs(Interpolated(last.data, Chomp(last.data), environ))

----------------------------------------------------------------------------
(* Properties of registered store types.                                   *)

\* the parameters of a class that the base of a definition fills
ChildParams == {"store", "children", "main_store", "cache_store"}

\* the definition d of a registered class gives the class its own config
\* fields and a base of the shape the class or its parent takes: none for a
\* plain store, a name for a wrapper, a list for a MirroringStore, a
\* main_store/cache_store mapping for a CachingStore
FitsRegistered(d) ==
    /\ d.type \in DOMAIN CustomClasses
    /\ d.type \in DOMAIN registry
    /\ DOMAIN d.config = CustomClasses[d.type].required \ ChildParams
    /\ LET bases == CustomClasses[d.type].bases
       IN  /\ "ObjectStore" \in bases => d.base.shape = "absent"
           /\ "ReadonlyStore" \in bases => d.base.shape = "str"
           /\ "MirroringStore" \in bases => d.base.shape = "list"
           /\ "CachingStore" \in bases => d.base.shape = "dict"

\* the store returned is of the type of d, with the children of its base
\* injected in order and the config fields of d alongside them
BuiltFrom(d, ret) ==
    /\ ret.type = d.type
    /\ \A k \in DOMAIN d.config : ret.config[k] = d.config[k]
    /\ d.base.shape = "absent" => DOMAIN ret.config = DOMAIN d.config
    /\ d.base.shape = "str" => ret.config.store.name = d.base.refs[1]
    /\ d.base.shape = "list" =>
           /\ Len(ret.config.children) = Len(d.base.refs)
           /\ \A i \in DOMAIN d.base.refs :
                  ret.config.children[i].name = d.base.refs[i]
    /\ d.base.shape = "dict" =>
           /\ ret.config.main_store.name = d.base.refs[1]
           /\ ret.config.cache_store.name = d.base.refs[2]

\* C12: a type registered under a new name is built from a configuration
\* document, and a registered subclass of MirroringStore (of CachingStore)
\* takes a list base (a main_store/cache_store mapping base): the first
\* build() of such a definition returns the store, its children resolved in
\* order and injected, its config fields passed alongside them.
C12_RegisteredTypeBuilds ==
    [][(/\ last'.op = "build"
        /\ built_stores = {}
        /\ FitsRegistered(stores[last'.key]))
       => /\ last'.exc = NoExc
          /\ BuiltFrom(stores[last'.key], last'.ret)
    ]_vars

\* what holds of the code: the registered types that derive from no
\* multi-child decorator are built so; a registered subclass of
\* MirroringStore or CachingStore is refused its parent's base, because
\* _parse_list_base and _parse_dictionary_base compare the name of the type
C12_RegisteredByNameOnly ==
    [][(/\ last'.op = "build"
        /\ built_stores = {}
        /\ FitsRegistered(stores[last'.key]))
       => IF stores[last'.key].base.shape \in {"list", "dict"}
          THEN last'.exc = ConfigError("Invalid base store configuration",
                                       stores[last'.key].type)
          ELSE /\ last'.exc = NoExc
               /\ BuiltFrom(stores[last'.key], last'.ret)
    ]_vars

----------------------------------------------------------------------------
(* Properties of NotifyingStore.                                           *)

\* the outcome of the call that put(key, data) or delete(key) delegates to
\* the wrapped store, on the store as it is before the call
DelegatedOutcome(op, key, data) ==
    IF op = "put" THEN Put(notifying_store.store, key, data)
    ELSE Delete(notifying_store.store, key)

\* the places in calls where the caller's i-th handler was called
CallsOf(calls, i) ==
    {n \in DOMAIN calls : calls[n].who = "handler" /\ calls[n].i = i}

HandlerCalls(calls) == {n \in DOMAIN calls : calls[n].who = "handler"}

NoHandlerRaises == \A i \in DOMAIN notifying_store.handlers :
                       ~notifying_store.handlers[i].raises

\* C13: when the put or delete of the wrapped store raises E, every handler
\* registered for the operation is called with (store, operation, key, E),
\* and then E is raised to the caller.  Stated for handlers that return.
C13_FailureNotifiesThenReraises ==
    [][(last'.op \in {"put", "delete"} /\ NoHandlerRaises) =>
          LET r == DelegatedOutcome(last'.op, last'.key, last'.data)
              hs == notifying_store.handlers
          IN  r.exc # NoExc =>
                  /\ \A i \in DOMAIN hs :
                         Wants(hs[i], last'.op) =>
                             \E n \in CallsOf(last'.calls, i) :
                                 last'.calls[n] =
                                     Handled(i, r.store, last'.op,
                                             last'.key, r.exc)
                  /\ last'.exc = r.exc
    ]_vars

\* what holds of the code: when the put or delete of the wrapped store
\* raises, no handler is called and the caller gets the UnboundLocalError of
\* the local e
C13_FailureRaisesUnboundLocalError ==
    [][last'.op \in {"put", "delete"} =>
          LET r == DelegatedOutcome(last'.op, last'.key, last'.data)
          IN  r.exc # NoExc =>
                  /\ HandlerCalls(last'.calls) = {}
                  /\ last'.exc = UnboundLocalError("e")
    ]_vars

\* the handler calls of calls come after the delegated call, in the order of
\* registration, each with (store, action, key, None)
NotifiedInOrder(calls, store, action, key) ==
    /\ HandlerCalls(calls) # {} => calls[1] = Delegated(action, key)
    /\ \A n \in HandlerCalls(calls) :
           /\ n > 1
           /\ calls[n] = Handled(calls[n].i, store, action, key, NoExc)
           /\ \A m \in HandlerCalls(calls) :
                  m < n => calls[m].i < calls[n].i

\* C14: for a put or delete whose delegated call returns normally, each
\* handler registered with on_change is called exactly once, in the order of
\* registration, after the delegated call, with (store, operation, key,
\* None); get, exists and keys call no handler.
C14_SuccessNotifiesEveryHandler ==
    [][/\ last'.op \in {"put", "delete"} =>
            LET r == DelegatedOutcome(last'.op, last'.key, last'.data)
                hs == notifying_store.handlers
            IN  r.exc = NoExc =>
                    /\ \A i \in DOMAIN hs :
                           hs[i].via = "on_change" =>
                               Cardinality(CallsOf(last'.calls, i)) = 1
                    /\ NotifiedInOrder(last'.calls, r.store, last'.op,
                                       last'.key)
       /\ last'.op \in {"get", "exists", "keys"} =>
            HandlerCalls(last'.calls) = {}
    ]_vars

\* the first handler that is called for action and raises; past the last
\* handler when there is none
FirstRaiser(hs, action) ==
    LET R == {i \in DOMAIN hs : Wants(hs[i], action) /\ hs[i].raises}
    IN  IF R = {} THEN Len(hs) + 1
        ELSE CHOOSE i \in R : \A j \in R : i <= j

\* C14 as amended: the same, for the handlers up to and including the first
\* one that raises; its error goes to the caller and the handlers registered
\* after it are not called.  When no handler raises, every handler is called
\* once and the call returns normally.
C14_SuccessNotifiesUntilAHandlerRaises ==
    [][/\ last'.op \in {"put", "delete"} =>
            LET r == DelegatedOutcome(last'.op, last'.key, last'.data)
                hs == notifying_store.handlers
                stop == FirstRaiser(hs, last'.op)
            IN  r.exc = NoExc =>
                    /\ \A i \in DOMAIN hs :
                           hs[i].via = "on_change" =>
                               Cardinality(CallsOf(last'.calls, i)) =
                                   IF i <= stop THEN 1 ELSE 0
                    /\ NotifiedInOrder(last'.calls, r.store, last'.op,
                                       last'.key)
                    /\ last'.exc =
                           IF stop > Len(hs) THEN NoExc ELSE HandlerError
       /\ last'.op \in {"get", "exists", "keys"} =>
            HandlerCalls(last'.calls) = {}
    ]_vars

\* a put has returned after calling two on_change handlers, first the first
C14_Witness ==
    /\ last.op = "put"
    /\ last.exc = NoExc
    /\ Len(notifying_store.handlers) = 2
    /\ \A i \in {1, 2} : notifying_store.handlers[i].via = "on_change"
    /\ Len(last.calls) = 3
    /\ last.calls[1].who = "store"
    /\ last.calls[2].who = "handler" /\ last.calls[2].i = 1
    /\ last.calls[3].who = "handler" /\ last.calls[3].i = 2

----------------------------------------------------------------------------
(* Properties of the key-validating stores.                                *)

KeyedOps == {"put", "get", "exists", "delete"}

Rejects(s, key) == validator(s, key).type # "none"

\* C15: a keyed operation (put, get, exists, delete) of a KeyValidatingStore,
\* RegexValidatingStore or UrlValidatingStore on a key its validator
\* rejects raises KeyError for that key without any call on the child, whose
\* state is as before; on a key the validator accepts the operation makes
\* one call on the child, the same operation with the key unchanged.
C15_RejectedKeyNeverReachesChild ==
    (last.op \in KeyedOps /\ last.before.cls \in ValidatingClasses) =>
        IF Rejects(last.before, last.key)
        THEN /\ last.exc.type = "KeyError"
             /\ last.exc.arg = last.key
             /\ last.calls = <<>>
             /\ key_store = last.before
        ELSE last.calls = <<KCall(last.before.store, last.op, last.key)>>

\* a put on a rejected key has raised and the child holds what earlier puts
\* on accepted keys left in it
C15_Witness ==
    /\ key_store.cls \in ValidatingClasses
    /\ last.op = "put"
    /\ last.exc.type = "KeyError"
    /\ last.calls = <<>>
    /\ DOMAIN key_store.store.objects # {}

----------------------------------------------------------------------------
(* Properties of the key-transforming stores.                              *)

RECURSIVE Bottom(_)
Bottom(s) == IF s.cls \in KeyTransformingClasses THEN Bottom(s.store) ELSE s

\* the key under which the stack s hands key to its DictStore
RECURSIVE FullKey(_, _)
FullKey(s, key) ==
    IF s.cls \in KeyTransformingClasses
    THEN FullKey(s.store, transform_key(s, key).ret)
    ELSE key

RECURSIVE Rewrites(_)
Rewrites(s) ==
    s.cls \in KeyTransformingClasses =>
        s.cls \notin ValidatingClasses /\ Rewrites(s.store)

\* every HashPrefixStore of the stack takes no more digits than there are
RECURSIVE WithinDigest(_)
WithinDigest(s) ==
    s.cls \in KeyTransformingClasses =>
        /\ s.cls = "HashPrefixStore" => s.hash_length <= DigestLen
        /\ WithinDigest(s.store)

ChildKeys(s) == DOMAIN Bottom(s).objects

\* what keys() of the stack yields
Yielded(s) == KKeys(s).ret

\* the child holds the transformed keys of what keys() yields
PresentsOriginalKeys(s) == ChildKeys(s) = {FullKey(s, k) : k \in Yielded(s)}

\* the latest call reached the DictStore under the transformed key, and
\* keys() follows the puts and deletes
TracksCalls ==
    LET was == last.before
        full == FullKey(was, last.key)
    IN  /\ last.op \in KeyedOps =>
              last.calls[Len(last.calls)] = KCall(Bottom(was), last.op, full)
        /\ IF last.op = "put" /\ ~Raised(last)
           THEN /\ ChildKeys(key_store) = ChildKeys(was) \cup {full}
                /\ Yielded(key_store) = Yielded(was) \cup {last.key}
           ELSE IF last.op = "delete" /\ ~Raised(last)
           THEN /\ ChildKeys(key_store) = ChildKeys(was) \ {full}
                /\ Yielded(key_store) = Yielded(was) \ {last.key}
           ELSE key_store = was
        /\ last.op = "keys" => last.ret = Yielded(was)
        /\ last.op = "exists" => last.ret = (last.key \in Yielded(was))
        /\ last.op \in {"get", "delete"} =>
              (Raised(last) <=> last.key \notin Yielded(was))

\* C16: for a PrefixStore, HashPrefixStore, UrlEncodingStore,
\* KeyTransformingStore or a nesting of them over a DictStore that was
\* empty, after any puts and deletes the child holds exactly the
\* transformed keys of the keys put and not deleted since, keys() yields
\* exactly those original keys, and get, exists and delete reach the child
\* under the transformed key.
C16_PresentsOriginalKeys ==
    Rewrites(key_store) =>
        /\ PresentsOriginalKeys(key_store)
        /\ last.op # "none" => TracksCalls

\* the same for the stacks whose hash_length is within the digest
C16_PresentsOriginalKeysWithinDigest ==
    (Rewrites(key_store) /\ WithinDigest(key_store)) =>
        /\ PresentsOriginalKeys(key_store)
        /\ last.op # "none" => TracksCalls

\* two keys are stored through a nesting that rewrites them and keys() has
\* just been called
C16_Witness ==
    /\ Rewrites(key_store)
    /\ WithinDigest(key_store)
    /\ key_store.store.cls \in KeyTransformingClasses
    /\ last.op = "keys"
    /\ Cardinality(last.ret) = 2
    /\ \E k \in last.ret : FullKey(key_store, k) # k

----------------------------------------------------------------------------
(* Properties of `async with` over the async decorators.                   *)

\* the children of a decorator, in the order it holds them
ChildrenOf(s) ==
    IF s.cls = "AsyncFanoutStore" THEN s.children
    ELSE IF s.cls = "AsyncCachingStore" THEN <<s.main_store, s.cache_store>>
    ELSE IF s.cls = "AsyncSqliteStore" THEN <<>>
    ELSE <<s.store>>

\* the databases at the bottom of a store
RECURSIVE DatabasesOf(_)
DatabasesOf(s) ==
    IF s.cls = "AsyncSqliteStore" THEN {s}
    ELSE UNION {DatabasesOf(ChildrenOf(s)[i]) : i \in DOMAIN ChildrenOf(s)}

AllOpen(s) == \A db \in DatabasesOf(s) : db.conn # PyNone
AllClosed(s) == \A db \in DatabasesOf(s) : db.conn = PyNone
CanOpen(s) == \A db \in DatabasesOf(s) : db.fails = "none"

MultiChild == {"AsyncFanoutStore", "AsyncCachingStore"}

Failing(s) == {i \in DOMAIN ChildrenOf(s) : ChildrenOf(s)[i].fails # "none"}

\* __aenter__ of children 1..n in order, and __aexit__ of children n..1
Enters(n) == [j \in 1..n |-> << <<j>>, "__aenter__" >>]
Exits(n) == [j \in 1..n |-> << <<n + 1 - j>>, "__aexit__" >>]

\* C17: when `async with` names an AsyncFanoutStore or an AsyncCachingStore
\* and entering child i is the first to fail, the children before i have
\* been entered in order and are exited in reverse order, every one of
\* them is closed again, and the failure of child i is what the statement
\* raises.
C17_PartialEntryFailureUnwinds ==
    (/\ last.op = "enter"
     /\ last.before.store.cls \in MultiChild
     /\ AllClosed(last.before.store)
     /\ Failing(last.before.store) # {}) =>
        LET s == last.before.store
            i == CHOOSE f \in Failing(s) : \A g \in Failing(s) : f <= g
        IN  /\ last.exc.type = "OperationalError"
            /\ last.calls = Enters(i) \o Exits(i - 1)
            /\ \A j \in 1..(i - 1) : ChildrenOf(scoped.store)[j].conn = PyNone
            /\ ~scoped.entered

\* C18: `async with` over a decorator (AsyncPrefixStore, AsyncGzipStore,
\* one in the other, AsyncFanoutStore, AsyncCachingStore) whose databases
\* all open reaches its body with every database open, a put in the body
\* is served, the end of the body, normal or by exception, closes every
\* database, and no database is closed that is not open.
C18_ScopeEntersAndExitsEveryChild ==
    /\ (/\ last.op = "enter"
        /\ DatabasesOf(last.before.store) # {}
        /\ AllClosed(last.before.store)
        /\ CanOpen(last.before.store)) =>
            /\ last.exc = NoExc
            /\ scoped.entered
            /\ AllOpen(scoped.store)
    /\ scoped.entered => AllOpen(scoped.store)
    /\ (last.op = "put" /\ last.before.entered) => last.exc = NoExc
    /\ last.op \in {"exit", "exit by exception"} =>
            /\ last.exc = NoExc
            /\ AllOpen(last.before.store)
            /\ AllClosed(scoped.store)

----------------------------------------------------------------------------
(* Properties of the stores that front one backing store.                  *)

\* two exceptions of one class with one message about one key
SameExc(a, b) == a.type = b.type /\ a.msg = b.msg /\ a.arg = b.arg

\* the call the state records, made on the store s as the call found it
CallOn(s) ==
    IF last.op = "put" THEN Put(s, last.key, last.data)
    ELSE IF last.op = "get" THEN Get(s, last.key)
    ELSE IF last.op = "exists" THEN Exists(s, last.key)
    ELSE IF last.op = "delete" THEN Delete(s, last.key)
    ELSE StoreKeys(s)

\* the call returned, or raised, what r did
ResultOf(r) ==
    /\ SameExc(last.exc, r.exc)
    /\ last.exc = NoExc => last.ret = r.ret

NotSupported(msg) ==
    /\ last.exc.type = "NotImplementedError"
    /\ last.exc.msg = msg

Reads == {"get", "exists", "keys"}
Writes == {"put", "delete"}

\* C21: a ReadonlyStore answers get, exists and keys with the result of its
\* child and raises NotImplementedError on put and delete, leaving the child
\* as it was; a WriteonlyStore hands put and delete to its child and raises
\* NotImplementedError on get, exists and keys.
C21_ReadonlyWriteonly ==
    /\ (last.op # "none" /\ last.before.cls = "ReadonlyStore") =>
           LET r == CallOn(last.before.store)
           IN  IF last.op \in Reads
               THEN ResultOf(r) /\ decorator.store = r.store
               ELSE /\ NotSupported("store is read-only")
                    /\ decorator = last.before
    /\ (last.op # "none" /\ last.before.cls = "WriteonlyStore") =>
           LET r == CallOn(last.before.store)
           IN  IF last.op \in Writes
               THEN SameExc(last.exc, r.exc) /\ decorator.store = r.store
               ELSE /\ NotSupported("store is write-only")
                    /\ decorator = last.before

\* a put on a ReadonlyStore over a DictStore that holds another key
C21_Witness ==
    /\ last.op = "put"
    /\ last.before.cls = "ReadonlyStore"
    /\ last.before.store.cls = "DictStore"
    /\ DOMAIN last.before.store.objects = ShortKeys \ {last.key}
    /\ last.exc.type = "NotImplementedError"

\* what an ExceptionLoggingStore returns for a call that raised below it
SafeDefault(op) ==
    IF op = "keys" THEN <<>>
    ELSE IF op \in {"exists", "delete"} THEN FALSE
    ELSE PyNone

OverDictStore(s) ==
    \/ s.cls = "DictStore"
    \/ /\ s.cls \in {"IdentityStore", "PrefixStore"} \cup TransformingClasses
       /\ s.store.cls = "DictStore"

\* the key of the DictStore under which s keeps the object of key
StoredKey(s, key) == IF s.cls = "PrefixStore" THEN s.prefix \o key ELSE key

Absent(s, key) == StoredKey(s, key) \notin DOMAIN Contents(s)

\* C23: on a DictStore, and on an IdentityStore, a TransformingStore or a
\* PrefixStore over one, exists of an absent key returns False, get and
\* delete of an absent key raise KeyError and leave the objects as they
\* were, and after a delete that succeeded exists returns False and get
\* raises KeyError.
C23_MissingKey ==
    (last.op \in {"get", "exists", "delete"} /\ OverDictStore(last.before)) =>
        IF Absent(last.before, last.key)
        THEN IF last.op = "exists"
             THEN last.exc.type = "none" /\ last.ret = FALSE
             ELSE /\ last.exc.type = "KeyError"
                  /\ Contents(decorator) = Contents(last.before)
        ELSE last.op = "delete" =>
                 /\ last.exc.type = "none"
                 /\ KExists(decorator, last.key).exc.type = "none"
                 /\ KExists(decorator, last.key).ret = FALSE
                 /\ KGet(decorator, last.key).exc.type = "KeyError"

\* a delete of an absent key through a PrefixStore whose DictStore holds
\* the key unprefixed
C23_Witness ==
    /\ last.op = "delete"
    /\ last.before.cls = "PrefixStore"
    /\ last.key \in DOMAIN Contents(last.before)
    /\ Absent(last.before, last.key)
    /\ last.exc.type = "KeyError"

----------------------------------------------------------------------------
(* Properties of put.                                                      *)

\* store.get(last.key) on the receiver of the puts
GetBack ==
    IF Receiver = "DictStore" THEN DictStore_get(decorator, last.key)
    ELSE IF Receiver = "MirroringStore"
    THEN MirroringStore_get(children, last.key)
    ELSE CachingStore_get(main_store, cache_store, last.key)

\* C24: on a DictStore, a MirroringStore over DictStores and a CachingStore
\* over DictStores, the second of two equal puts in a row leaves every
\* underlying store as the first left it, and after a put get returns the
\* data put, whatever the key held before.
C24_PutIsIdempotent ==
    /\ last.op = "put again" => Underlying = last.before
    /\ last.op \in {"put", "put again"} =>
           /\ last.exc = NoExc
           /\ GetBack.exc = NoExc
           /\ GetBack.ret = last.data

\* the second put on a MirroringStore of several children
C24_Witness ==
    /\ last.op = "put again"
    /\ Receiver = "MirroringStore"
    /\ Len(children) > 1
    /\ \A i \in DOMAIN children : children[i].objects[last.key] = last.data

----------------------------------------------------------------------------
(* Properties of the utility functions for multi-store actions.            *)

\* the objects of the source and of the target as the call found them, and
\* of the target now
SourceBefore == Contents(last.before.from_store)
TargetBefore == Contents(last.before.to_store)
TargetNow == Contents(to_store)

\* C25: after sync_stores(source, target, delete) the keys of the target
\* are those of the source when delete is true and those of either store
\* when it is false; every key only the source had has the source's value
\* in the target; the source is as it was.
C25_SyncStores ==
    last.op = "sync_stores" =>
        /\ last.exc = NoExc
        /\ DOMAIN TargetNow =
               IF last.data THEN DOMAIN SourceBefore
               ELSE DOMAIN SourceBefore \cup DOMAIN TargetBefore
        /\ \A key \in DOMAIN SourceBefore \ DOMAIN TargetBefore :
               TargetNow[key] = SourceBefore[key]
        /\ from_store = last.before.from_store

\* the source had a and b and the target b and c; after a sync that
\* deletes, the target has a and b
C25_Witness ==
    /\ last.op = "sync_stores"
    /\ last.data
    /\ from_store.cls = "DictStore"
    /\ DOMAIN SourceBefore = {"a", "b"}
    /\ DOMAIN TargetBefore = {"b", "c"}
    /\ DOMAIN TargetNow = {"a", "b"}

\* C26: after copy_store(source, target, overwrite) the target has every
\* key of the source: with the source's value when overwrite is true or the
\* target lacked the key, with the value it had otherwise; the keys only
\* the target had keep their values, and the source is as it was.
C26_CopyStore ==
    last.op = "copy_store" =>
        /\ last.exc = NoExc
        /\ DOMAIN TargetNow = DOMAIN SourceBefore \cup DOMAIN TargetBefore
        /\ \A key \in DOMAIN SourceBefore :
               TargetNow[key] =
                   IF last.data \/ key \notin DOMAIN TargetBefore
                   THEN SourceBefore[key]
                   ELSE TargetBefore[key]
        /\ \A key \in DOMAIN TargetBefore \ DOMAIN SourceBefore :
               TargetNow[key] = TargetBefore[key]
        /\ from_store = last.before.from_store

\* a copy without overwrite, of a key both stores had with different
\* values and of a key only the source had
C26_Witness ==
    /\ last.op = "copy_store"
    /\ ~last.data
    /\ from_store.cls = "DictStore"
    /\ \E key \in DOMAIN SourceBefore \cap DOMAIN TargetBefore :
           /\ SourceBefore[key] # TargetBefore[key]
           /\ TargetNow[key] = TargetBefore[key]
    /\ DOMAIN SourceBefore \ DOMAIN TargetBefore # {}
    /\ DOMAIN TargetBefore \ DOMAIN SourceBefore # {}

----------------------------------------------------------------------------
(* Properties of transform_key and reverse_transform_key.                  *)

RoundTripClasses == {"PrefixStore", "HashPrefixStore", "UrlEncodingStore"}

\* the store last.before turns the key of the call into what its class
\* documents, and its reverse gives the key back
RoundTrips ==
    LET self == last.before
        t == transform_key(self, last.key)
    IN  /\ t.exc = NoExc
        /\ reverse_transform_key(self, t.ret) = last.key
        /\ self.cls = "PrefixStore" => t.ret = self.prefix \o last.key
        /\ self.cls = "HashPrefixStore" =>
               t.ret = TakeFirst(hexdigest(last.key), self.hash_length)
                           \o self.separator \o last.key

\* C27: for a PrefixStore of any prefix, a HashPrefixStore of any
\* hash_length and separator and a UrlEncodingStore,
\* reverse_transform_key(transform_key(key)) is key, for every key; the
\* PrefixStore transforms key into prefix + key and the HashPrefixStore
\* into the first hash_length digits of the digest + separator + key.
C27_KeyRoundTrip ==
    (last.op \in KeyedOps /\ last.before.cls \in RoundTripClasses) =>
        RoundTrips

\* the same, for a HashPrefixStore whose hash_length the digest can fill
C27_KeyRoundTripWithinDigest ==
    (/\ last.op \in KeyedOps
     /\ last.before.cls \in RoundTripClasses
     /\ last.before.cls = "HashPrefixStore" =>
            last.before.hash_length <= DigestLen) =>
        RoundTrips

----------------------------------------------------------------------------
(* Properties of the transforming stores.                                  *)

DataTransforming == TransformingClasses \cup {"AsyncTransformingStore"}

\* f and g of the store s: its transform and its reverse transform
Forward(s, data) ==
    IF s.cls = "AsyncTransformingStore"
    THEN DataTransformer_transform(s.transformer, data)
    ELSE transform(s, data)

Backward(s, data) ==
    IF s.cls = "AsyncTransformingStore"
    THEN DataTransformer_reverse_transform(s.transformer, data)
    ELSE reverse_transform(s, data)

\* the same store with the other execution-cost hint
Offloaded(s) == [s EXCEPT !.sync_transform = ~@]

\* put(key, x) hands f(x) to the child, and hands it nothing when f raises
PutsTransformed(s) ==
    LET f == Forward(s, last.data)
        r == Put(s.store, last.key, f.ret)
    IN  IF f.exc.type = "none"
        THEN SameExc(last.exc, r.exc) /\ decorator.store = r.store
        ELSE SameExc(last.exc, f.exc) /\ decorator = s

\* get(key) returns g of what the child returns
GetsReversed(s) ==
    LET r == Get(s.store, last.key)
        g == Backward(s, r.ret)
    IN  /\ decorator.store = r.store
        /\ IF r.exc.type = "none"
           THEN SameExc(last.exc, g.exc) /\ (g.exc = NoExc => last.ret = g.ret)
           ELSE SameExc(last.exc, r.exc)

\* after a put of x that returned, on a child that gives back what it was
\* given, get returns x when g(f(x)) is x
PutThenGet(s) ==
    LET f == Forward(s, last.data)
        c == Get(decorator.store, last.key)
        g == Backward(s, f.ret)
        back == Get(decorator, last.key)
    IN  (/\ last.exc.type = "none"
         /\ c.exc.type = "none" /\ c.ret = f.ret
         /\ g.exc.type = "none" /\ g.ret = last.data) =>
            back.exc.type = "none" /\ back.ret = last.data

\* the call gives the same outcome when the transform runs the other way
SameOffloaded(s) ==
    LET r == CallOn(Offloaded(s))
    IN  /\ ResultOf(r)
        /\ decorator.store = r.store.store

\* C28: a transforming store with transform f and reverse transform g puts
\* f(x) into its child under the same key, and only once f has returned;
\* its get returns g of what the child's get returns, so that get gives x
\* back after put(key, x) whenever g(f(x)) is x; exists, delete and keys
\* are those of the child; an AsyncTransformingStore gives the same outcome
\* with sync_transform true and false.
C28_TransformsPayload ==
    (last.op # "none" /\ last.before.cls \in DataTransforming) =>
        LET s == last.before
        IN  /\ last.op = "put" => PutsTransformed(s) /\ PutThenGet(s)
            /\ last.op = "get" => GetsReversed(s)
            /\ last.op \in {"exists", "delete", "keys"} =>
                   LET r == CallOn(s.store)
                   IN  ResultOf(r) /\ decorator.store = r.store
            /\ s.cls = "AsyncTransformingStore" => SameOffloaded(s)

\* a put of bytes through a GzipStore over a DictStore that held other data
\* under the key: the DictStore holds them compressed and get gives them back
C28_Witness ==
    /\ last.op = "put"
    /\ last.before.cls = "GzipStore"
    /\ last.before.store.cls = "DictStore"
    /\ last.key \in DOMAIN last.before.store.objects
    /\ last.before.store.objects[last.key] # gzip_compress(last.data)
    /\ last.exc = NoExc
    /\ decorator.store.objects[last.key] = gzip_compress(last.data)
    /\ Get(decorator, last.key).ret = last.data

-----------------------------------------------------------------------------
(* The keys of a MirroringStore.                                           *)

HeldBySome == UNION {DOMAIN Contents(children[i]) : i \in DOMAIN children}

YieldedOnce(yielded) ==
    \A i, j \in DOMAIN yielded : i # j => yielded[i] # yielded[j]

\* C29: MirroringStore.keys() returns the set of the keys that at least one
\* child holds, each key once however many children hold it; drained, the
\* keys() of an AsyncFanoutStore yields exactly these keys and none of them
\* twice.
C29_KeysIsUnion ==
    /\ Returned("keys") => last.ret = HeldBySome
    /\ Returned("async keys") =>
          /\ {last.ret[i] : i \in DOMAIN last.ret} = HeldBySome
          /\ YieldedOnce(last.ret)

\* keys() has returned over children of which two hold the same key and
\* only one holds another
C29_Witness ==
    /\ Returned("keys")
    /\ \E key \in last.ret : Cardinality(Holders(children, key)) >= 2
    /\ \E key \in last.ret : Cardinality(Holders(children, key)) = 1
    /\ \E i \in DOMAIN children : DOMAIN Contents(children[i]) # last.ret

-----------------------------------------------------------------------------
(* keys() with keyword arguments.                                          *)

\* the call below reached the DictStore's keys()
ReachedBase ==
    \E n \in DOMAIN last.calls :
        last.calls[n].on = "DictStore" /\ last.calls[n].op = "keys"

\* C30: keys() accepts keyword arguments at every layer: called with a
\* prefix keyword on the outermost of the nested key-transforming stores it
\* reaches the base store's keys() and answers as keys() without keywords
\* does, and DictStore.keys() called with a keyword returns all of its keys.
C30_KeysAcceptsKeywords ==
    /\ (last.op = "keys(**kwargs)" /\ KKeys(last.before).exc.type = "none") =>
          /\ last.exc.type = "none"
          /\ ReachedBase
          /\ last.ret = KKeys(last.before).ret
    /\ last.op = "base keys(**kwargs)" =>
          /\ last.exc.type = "none"
          /\ last.ret = DOMAIN BaseStore(last.before).objects

\* what the code does: a keyword makes keys() raise TypeError before any
\* store below is asked, at the outermost store and at the DictStore alike;
\* without keywords keys() answers as before
C30_KeywordsRefused ==
    last.op \in {"keys(**kwargs)", "base keys(**kwargs)"} =>
        IF last.data # {}
        THEN /\ last.exc.type = "TypeError"
             /\ last.calls = <<>>
             /\ key_store = last.before
        ELSE /\ last.op = "keys(**kwargs)" =>
                 /\ last.exc.type = KKeys(last.before).exc.type
                 /\ last.calls = KKeys(last.before).calls
             /\ last.op = "base keys(**kwargs)" =>
                 /\ last.exc.type = "none"
                 /\ last.ret = DOMAIN BaseStore(last.before).objects

\* a prefix keyword was given to keys() of two nested stores over a
\* DictStore that holds an object, and the call raised
C30_Refused ==
    /\ last.op = "keys(**kwargs)"
    /\ last.data = {<<"prefix", "test">>}
    /\ last.before.store.cls = "PrefixStore"
    /\ BaseStore(last.before).objects # <<>>
    /\ last.exc.type = "TypeError"

-----------------------------------------------------------------------------
(* Two calls on an AsyncCachingStore over two AsyncDictStores in any       *)
(* state, run concurrently: the event loop resumes either coroutine at     *)
(* each await.  When both are done one more get or exists is made.         *)

AsyncDicts == {AsyncDictStore(d) : d \in Dicts}

CachingCalls ==
    {Coroutine("put", key, data) : key \in Keys, data \in Data}
    \cup {Coroutine(op, key, PyNone) : op \in {"get", "exists", "delete"},
                                       key \in Keys}

AllFinished == \A i \in DOMAIN tasks : Finished(tasks[i])

\* no call has returned to a sequential caller; before holds the stores as
\* the concurrent calls found them
StoresAtStart(main, cache) ==
    [op |-> "none", key |-> PyNone, data |-> PyNone, exc |-> NoExc,
     ret |-> PyNone, calls |-> <<>>,
     before |-> [main_store |-> main, cache_store |-> cache]]

CacheRaceInit ==
    /\ main_store \in AsyncDicts
    /\ cache_store \in AsyncDicts
    /\ tasks \in {<<a, b>> : a \in CachingCalls, b \in CachingCalls}
    /\ last = StoresAtStart(main_store, cache_store)
    /\ children = <<>>
    /\ decorator = NoStore
    /\ from_store = NoStore
    /\ to_store = NoStore
    /\ stores = <<>>
    /\ built_stores = {}
    /\ registry = STORES
    /\ environ = <<>>
    /\ notifying_store = NoStore
    /\ key_store = NoStore
    /\ scoped = NoStore

\* the event loop resumes coroutine i, which runs to its next await
CacheRaceStep(i, r) ==
    /\ tasks' = [tasks EXCEPT ![i] = r.task]
    /\ main_store' = r.main_store
    /\ cache_store' = r.cache_store
    /\ UNCHANGED <<children, last, stores, built_stores, environ, registry,
                   notifying_store, key_store, scoped, decorator, from_store,
                   to_store>>

Resumable(i, op) == tasks[i].op = op /\ ~Finished(tasks[i])

CacheRacePut ==
    \E i \in DOMAIN tasks :
        /\ Resumable(i, "put")
        /\ CacheRaceStep(i, AsyncCachingStore_put_step(tasks[i], main_store,
                                                       cache_store))

CacheRaceGet ==
    \E i \in DOMAIN tasks :
        /\ Resumable(i, "get")
        /\ CacheRaceStep(i, AsyncCachingStore_get_step(tasks[i], main_store,
                                                       cache_store))

CacheRaceExists ==
    \E i \in DOMAIN tasks :
        /\ Resumable(i, "exists")
        /\ CacheRaceStep(i, AsyncCachingStore_exists_step(tasks[i], main_store,
                                                          cache_store))

CacheRaceDelete ==
    \E i \in DOMAIN tasks :
        /\ Resumable(i, "delete")
        /\ CacheRaceStep(i, AsyncCachingStore_delete_step(tasks[i], main_store,
                                                          cache_store))

\* both calls have completed: a call is made on the key of the first
CacheRaceFollowUp ==
    /\ Len(tasks) = 2
    /\ AllFinished
    /\ \E op \in {"get", "exists"} :
          tasks' = Append(tasks, Coroutine(op, tasks[1].key, PyNone))
    /\ UNCHANGED <<children, main_store, cache_store, last, stores,
                   built_stores, environ, registry, notifying_store,
                   key_store, scoped, decorator, from_store, to_store>>

CacheRaceNext ==
    \/ CacheRacePut
    \/ CacheRaceGet
    \/ CacheRaceExists
    \/ CacheRaceDelete
    \/ CacheRaceFollowUp

SpecCacheRace == CacheRaceInit /\ [][CacheRaceNext]_vars

-----------------------------------------------------------------------------
(* Concurrent calls on an AsyncCachingStore.                               *)

HasAwaited(t, store, method) ==
    \E n \in DOMAIN t.calls : t.calls[n] = <<store, method>>

\* a get that found the cache without its key
Missed(t) == t.op = "get" /\ HasAwaited(t, "main", "get")

\* the two concurrent calls are a and b, in either order, and both are done
Raced(a, b) ==
    /\ Len(tasks) >= 2
    /\ {a, b} = {1, 2}
    /\ Finished(tasks[a])
    /\ Finished(tasks[b])
    /\ tasks[a].key = tasks[b].key

\* the call made after the two have completed, completed too
FollowedUp(op) == Len(tasks) = 3 /\ tasks[3].op = op /\ Finished(tasks[3])

CacheAgreesOn(key, data) ==
    /\ Holds(cache_store, key)
    /\ Holds(main_store, key)
    /\ Contents(cache_store)[key] = data
    /\ Contents(main_store)[key] = data

\* C31 as stated: a get(k) that misses the cache, run concurrently with
\* put(k, v2): once both have completed the cache's value for k is main's
\* value, v2, and a later get(k) returns v2.
C31_NoStaleCacheAfterPut ==
    \A a, b \in DOMAIN tasks :
        (Raced(a, b) /\ Missed(tasks[a]) /\ tasks[b].op = "put") =>
            /\ CacheAgreesOn(tasks[a].key, tasks[b].data)
            /\ FollowedUp("get") =>
                  tasks[3].exc = NoExc /\ tasks[3].ret = tasks[b].data

\* the value the get read from main, if it read one, is the value written
KeyStable(get, put) == get.local \in {PyNone, put.data}

\* C31, amended: the same when values are key-stable, that is when the value
\* the get read from main (if k was there to read) is the value the put
\* writes.
C31_NoStaleCacheWhenKeyStable ==
    \A a, b \in DOMAIN tasks :
        (/\ Raced(a, b)
         /\ Missed(tasks[a])
         /\ tasks[b].op = "put"
         /\ KeyStable(tasks[a], tasks[b])) =>
            /\ CacheAgreesOn(tasks[a].key, tasks[b].data)
            /\ FollowedUp("get") =>
                  tasks[3].exc = NoExc /\ tasks[3].ret = tasks[b].data

\* a get that missed, read main and populated the cache raced a put of the
\* same value, and the get made afterwards has returned it
C31_Witness ==
    /\ Raced(1, 2)
    /\ Missed(tasks[1])
    /\ HasAwaited(tasks[1], "cache", "put")
    /\ tasks[2].op = "put"
    /\ tasks[1].local = tasks[2].data
    /\ FollowedUp("get")
    /\ tasks[3].ret = tasks[2].data

\* C32: a get(k) that misses the cache, run concurrently with delete(k): once
\* both have completed the cache holds k only if main holds k, and an
\* exists(k) made after the completed delete returns False.
C32_NoResurrectionAfterDelete ==
    \A a, b \in DOMAIN tasks :
        (Raced(a, b) /\ Missed(tasks[a]) /\ tasks[b].op = "delete") =>
            /\ Holds(cache_store, tasks[a].key) => Holds(main_store, tasks[a].key)
            /\ (FollowedUp("exists") /\ tasks[b].exc = NoExc) =>
                  tasks[3].ret = FALSE

\* what the code gives: the key comes back only by the populate of a get
\* that read main before the delete, and then with the value main held
C32_ResurrectedOnlyByPopulate ==
    \A a, b \in DOMAIN tasks :
        (/\ Raced(a, b)
         /\ Missed(tasks[a])
         /\ tasks[b].op = "delete"
         /\ Holds(cache_store, tasks[a].key)
         /\ ~Holds(main_store, tasks[a].key)) =>
            /\ HasAwaited(tasks[a], "cache", "put")
            /\ ~HasAwaited(tasks[b], "cache", "delete")
            /\ Contents(cache_store)[tasks[a].key] = tasks[a].ret

\* the deleted key is in the cache and not in main, and exists() says True
C32_Resurrected ==
    /\ Raced(1, 2)
    /\ Missed(tasks[1])
    /\ tasks[2].op = "delete"
    /\ Holds(cache_store, tasks[1].key)
    /\ ~Holds(main_store, tasks[1].key)
    /\ FollowedUp("exists")
    /\ tasks[3].ret = TRUE

\* the number of times the coroutine has awaited method of the child
Awaits(t, store, method) ==
    Cardinality({n \in DOMAIN t.calls : t.calls[n] = <<store, method>>})

\* C33: two concurrent get(k) on a key that main holds with value v and the
\* cache does not hold: once both have completed, both have returned v
\* without error, each has read main at most once, main is as it was and the
\* cache holds k with value v.
C33_ConcurrentMissesAreHarmless ==
    \A a, b \in DOMAIN tasks :
        (/\ Raced(a, b)
         /\ tasks[a].op = "get"
         /\ tasks[b].op = "get"
         /\ Holds(last.before.main_store, tasks[a].key)
         /\ ~Holds(last.before.cache_store, tasks[a].key)) =>
            LET v == Contents(last.before.main_store)[tasks[a].key]
            IN  /\ tasks[a].exc = NoExc /\ tasks[a].ret = v
                /\ tasks[b].exc = NoExc /\ tasks[b].ret = v
                /\ Awaits(tasks[a], "main", "get") <= 1
                /\ Awaits(tasks[b], "main", "get") <= 1
                /\ main_store = last.before.main_store
                /\ Holds(cache_store, tasks[a].key)
                /\ Contents(cache_store)[tasks[a].key] = v

\* both gets missed, both read main and both populated the cache
C33_Witness ==
    /\ Raced(1, 2)
    /\ Missed(tasks[1])
    /\ Missed(tasks[2])
    /\ HasAwaited(tasks[1], "cache", "put")
    /\ HasAwaited(tasks[2], "cache", "put")
    /\ tasks[1].ret = tasks[2].ret
    /\ Contents(cache_store)[tasks[1].key] = tasks[1].ret

-----------------------------------------------------------------------------
(* storage/aioutils.py: AsyncFanoutStore, one awaited child call at a      *)
(* time.  child is the position of the for loop over self.children; a loop *)
(* over no children awaits nothing and the coroutine is done when resumed. *)

FanoutCoroutine(op, key, data) ==
    [op |-> op, key |-> key, data |-> data, pc |-> "start", child |-> 1,
     local |-> PyNone, exc |-> NoExc, ret |-> PyNone, calls |-> <<>>]

FStep(t, ch) == [task |-> t, children |-> ch]

\* the loop moves to the next child; after the last one the code that
\* follows the loop ends the call with completed
NextChild(t, ch, completed) ==
    IF t.child >= Len(ch) THEN completed
    ELSE [t EXCEPT !.child = @ + 1, !.pc = "start"]

AsyncFanoutStore_put_step(t, ch) ==
    IF ch = <<>> THEN FStep(Returns(t, PyNone), ch)
    ELSE LET r == Put(ch[t.child], t.key, t.data)
             t1 == Awaited(t, t.child, "put")
         IN  IF r.exc # NoExc THEN FStep(Raises(t1, r.exc), SetChild(ch, t.child, r))
             ELSE FStep(NextChild(t1, ch, Returns(t1, PyNone)),
                        SetChild(ch, t.child, r))

AsyncFanoutStore_get_step(t, ch) ==
    IF ch = <<>> THEN FStep(Raises(t, KeyError(t.key)), ch)
    ELSE IF t.pc = "start"
    THEN LET e == Exists(ch[t.child], t.key)
             t1 == Awaited(t, t.child, "exists")
         IN  IF e.exc # NoExc THEN FStep(Raises(t1, e.exc), SetChild(ch, t.child, e))
             ELSE IF e.ret THEN FStep(At(t1, "get"), SetChild(ch, t.child, e))
             ELSE FStep(NextChild(t1, ch, Raises(t1, KeyError(t.key))),
                        SetChild(ch, t.child, e))
    ELSE LET g == Get(ch[t.child], t.key)
             t1 == Awaited(t, t.child, "get")
         IN  IF g.exc # NoExc THEN FStep(Raises(t1, g.exc), SetChild(ch, t.child, g))
             ELSE FStep(Returns(t1, g.ret), SetChild(ch, t.child, g))

AsyncFanoutStore_exists_step(t, ch) ==
    IF ch = <<>> THEN FStep(Returns(t, FALSE), ch)
    ELSE LET e == Exists(ch[t.child], t.key)
             t1 == Awaited(t, t.child, "exists")
         IN  IF e.exc # NoExc THEN FStep(Raises(t1, e.exc), SetChild(ch, t.child, e))
             ELSE IF e.ret THEN FStep(Returns(t1, TRUE), SetChild(ch, t.child, e))
             ELSE FStep(NextChild(t1, ch, Returns(t1, FALSE)),
                        SetChild(ch, t.child, e))

AsyncFanoutStore_delete_step(t, ch) ==
    IF ch = <<>> THEN FStep(Returns(t, PyNone), ch)
    ELSE IF t.pc = "start"
    THEN LET e == Exists(ch[t.child], t.key)
             t1 == Awaited(t, t.child, "exists")
         IN  IF e.exc # NoExc THEN FStep(Raises(t1, e.exc), SetChild(ch, t.child, e))
             ELSE IF e.ret THEN FStep(At(t1, "delete"), SetChild(ch, t.child, e))
             ELSE FStep(NextChild(t1, ch, Returns(t1, PyNone)),
                        SetChild(ch, t.child, e))
    ELSE LET d == Delete(ch[t.child], t.key)
             t1 == Awaited(t, t.child, "delete")
         IN  IF d.exc # NoExc THEN FStep(Raises(t1, d.exc), SetChild(ch, t.child, d))
             ELSE FStep(NextChild(t1, ch, Returns(t1, PyNone)),
                        SetChild(ch, t.child, d))

\* the coroutine resumed: it runs to its next await
AsyncFanoutStore_step(t, ch) ==
    IF t.op = "put" THEN AsyncFanoutStore_put_step(t, ch)
    ELSE IF t.op = "get" THEN AsyncFanoutStore_get_step(t, ch)
    ELSE IF t.op = "exists" THEN AsyncFanoutStore_exists_step(t, ch)
    ELSE AsyncFanoutStore_delete_step(t, ch)

\* await store.op(...) with no other coroutine running: the coroutine is
\* resumed until it is done
RECURSIVE AwaitFanout(_, _)
AwaitFanout(t, ch) ==
    IF Finished(t) THEN MOutcome(ch, t.exc, t.ret, t.calls)
    ELSE LET r == AsyncFanoutStore_step(t, ch)
         IN  AwaitFanout(r.task, r.children)

-----------------------------------------------------------------------------
(* Two calls on an AsyncFanoutStore over AsyncDictStores in any state, run *)
(* concurrently.  The calls being interleaved, the lists are one child     *)
(* shorter than those of the sequential checks.                            *)

FanoutLists ==
    UNION {[1..n -> AsyncDicts] : n \in 0..(MaxChildren - 1)}

FanoutCalls ==
    {FanoutCoroutine("put", key, data) : key \in Keys, data \in Data}
    \cup {FanoutCoroutine(op, key, PyNone) :
            op \in {"get", "exists", "delete"}, key \in Keys}

\* before holds the children as the concurrent calls found them
ChildrenAtStart(ch) ==
    [op |-> "none", key |-> PyNone, data |-> PyNone, exc |-> NoExc,
     ret |-> PyNone, calls |-> <<>>, before |-> ch]

FanoutRaceInit ==
    /\ children \in FanoutLists
    /\ tasks \in {<<a, b>> : a \in FanoutCalls, b \in FanoutCalls}
    /\ last = ChildrenAtStart(children)
    /\ main_store = DictStore(<<>>)
    /\ cache_store = DictStore(<<>>)
    /\ decorator = NoStore
    /\ from_store = NoStore
    /\ to_store = NoStore
    /\ stores = <<>>
    /\ built_stores = {}
    /\ registry = STORES
    /\ environ = <<>>
    /\ notifying_store = NoStore
    /\ key_store = NoStore
    /\ scoped = NoStore

FanoutRaceStep(i, r) ==
    /\ tasks' = [tasks EXCEPT ![i] = r.task]
    /\ children' = r.children
    /\ UNCHANGED <<main_store, cache_store, last, stores, built_stores,
                   environ, registry, notifying_store, key_store, scoped,
                   decorator, from_store, to_store>>

FanoutRacePut ==
    \E i \in DOMAIN tasks :
        /\ Resumable(i, "put")
        /\ FanoutRaceStep(i, AsyncFanoutStore_put_step(tasks[i], children))

FanoutRaceGet ==
    \E i \in DOMAIN tasks :
        /\ Resumable(i, "get")
        /\ FanoutRaceStep(i, AsyncFanoutStore_get_step(tasks[i], children))

FanoutRaceExists ==
    \E i \in DOMAIN tasks :
        /\ Resumable(i, "exists")
        /\ FanoutRaceStep(i, AsyncFanoutStore_exists_step(tasks[i], children))

FanoutRaceDelete ==
    \E i \in DOMAIN tasks :
        /\ Resumable(i, "delete")
        /\ FanoutRaceStep(i, AsyncFanoutStore_delete_step(tasks[i], children))

FanoutRaceNext ==
    \/ FanoutRacePut
    \/ FanoutRaceGet
    \/ FanoutRaceExists
    \/ FanoutRaceDelete

SpecFanoutRace == FanoutRaceInit /\ [][FanoutRaceNext]_vars

-----------------------------------------------------------------------------
(* Concurrent calls on an AsyncFanoutStore.                                *)

\* either no child holds the key or all hold it with the same value
ChildrenAgreeOn(key) ==
    \/ \A i \in DOMAIN children : ~Holds(children[i], key)
    \/ \A i, j \in DOMAIN children :
          /\ Holds(children[i], key)
          /\ Holds(children[j], key)
          /\ Contents(children[i])[key] = Contents(children[j])[key]

Writers(a, b) ==
    \/ tasks[a].op = "put" /\ tasks[b].op = "put"
    \/ tasks[a].op = "put" /\ tasks[b].op = "delete"

\* C34: two puts of a key, or a put and a delete of it, run concurrently on
\* an AsyncFanoutStore with at least two children: once both have completed
\* either no child holds the key or all hold the same value.
C34_MirrorsConverge ==
    \A a, b \in DOMAIN tasks :
        (Raced(a, b) /\ Writers(a, b) /\ Len(children) >= 2) =>
            ChildrenAgreeOn(tasks[a].key)

\* what the code gives: two concurrent puts of the same value leave every
\* child with that value
C34_SamePutsConverge ==
    \A a, b \in DOMAIN tasks :
        (/\ Raced(a, b)
         /\ tasks[a].op = "put"
         /\ tasks[b].op = "put"
         /\ tasks[a].data = tasks[b].data) =>
            \A i \in DOMAIN children :
                /\ Holds(children[i], tasks[a].key)
                /\ Contents(children[i])[tasks[a].key] = tasks[a].data

\* a put and a delete have both completed, no child held the key before,
\* and now the first child holds it and the second does not
C34_Diverged ==
    /\ Raced(1, 2)
    /\ tasks[1].op = "put"
    /\ tasks[2].op = "delete"
    /\ Len(children) = 2
    /\ \A i \in DOMAIN children : ~Holds(last.before[i], tasks[1].key)
    /\ Holds(children[1], tasks[1].key)
    /\ ~Holds(children[2], tasks[1].key)

\* two puts of different values have both completed and the children hold
\* one value each
C34_DivergedValues ==
    /\ Raced(1, 2)
    /\ tasks[1].op = "put"
    /\ tasks[2].op = "put"
    /\ Len(children) = 2
    /\ Contents(children[1])[tasks[1].key] # Contents(children[2])[tasks[1].key]

-----------------------------------------------------------------------------
(* The cache of a CachingStore holds a subset of main's keys.              *)

CacheWithinMain ==
    DOMAIN Contents(cache_store) \subseteq DOMAIN Contents(main_store)

\* C35: from a state where every key of the cache is in main, after any
\* sequence of put, get, exists, delete, keys and clear on the CachingStore
\* every key of the cache is still in main; exists(k) then returns whether
\* keys() yields k, and keys() yields the keys for which exists() is true.
C35_CacheSubsetOfMain ==
    /\ CacheWithinMain
    /\ Returned("exists") =>
          last.ret = (last.key \in CachingStore_keys(main_store, cache_store).ret)
    /\ Returned("keys") =>
          last.ret = {k \in Keys :
                        CachingStore_exists(main_store, cache_store, k).ret}

\* a delete has removed a key from main and from the cache, and the cache
\* still holds another key
C35_Witness ==
    /\ Returned("delete")
    /\ Called("cache", "delete")
    /\ Contents(cache_store) # <<>>
    /\ CacheWithinMain


-----------------------------------------------------------------------------
(* CachingStore.delete and AsyncCachingStore.delete: main first, then the  *)
(* cache if it holds the key.                                               *)

DeleteCalled == last.op \in {"delete", "await delete"}

\* what main's own delete does with the key, on main as the call found it
MainDelete == Delete(last.before.main_store, last.key)

\* C36: delete(k) on a CachingStore or an AsyncCachingStore calls main's
\* delete first, whatever the cache holds, and the cache's delete only when
\* main's delete succeeded and the cache holds k.  When delete returns
\* normally neither main nor the cache holds k; when main's delete fails the
\* caller gets that error and the cache is as it was, even if it holds k.
C36_DeleteMainThenCache ==
    DeleteCalled =>
        /\ last.calls[1] = <<"main", "delete">>
        /\ Called("cache", "delete") <=>
              /\ MainDelete.exc = NoExc
              /\ Holds(last.before.cache_store, last.key)
        /\ last.exc = NoExc =>
              /\ ~Holds(main_store, last.key)
              /\ ~Holds(cache_store, last.key)
        /\ MainDelete.exc # NoExc =>
              /\ last.exc = MainDelete.exc
              /\ cache_store = last.before.cache_store
              /\ main_store = last.before.main_store

\* main lacked the key and the cache held it: delete raised KeyError and
\* the cache still holds the key
C36_Witness ==
    /\ last.op = "delete"
    /\ last.exc = KeyError(last.key)
    /\ ~Holds(main_store, last.key)
    /\ Holds(cache_store, last.key)
    /\ cache_store.cls = "DictStore"

\* the same through an AsyncCachingStore
C36_WitnessAwaited ==
    /\ last.op = "await delete"
    /\ last.exc = KeyError(last.key)
    /\ Holds(cache_store, last.key)


-----------------------------------------------------------------------------
(* StoreFactory.build on graphs where a definition is the base of two      *)
(* parents.                                                                 *)

CycleError(exc) ==
    exc.type = "ConfigError" /\ exc.msg = "Recursive store definition found"

\* C37: build() raises the cycle error only for a name that is an ancestor
\* on the current resolution path, i.e. a definition that is its own base,
\* directly or transitively; a well-formed acyclic graph builds, also when
\* one definition is the base of two parents.  Stated for the first build()
\* of a factory (nothing is marked before the call).
C37_OnlyCyclesRejected ==
    [][(last'.op = "build" /\ built_stores = {})
       =>
           /\ CycleError(last'.exc) => last'.exc.arg \in OnCycle(stores)
           /\ (/\ WellFormedFrom(stores, last'.key)
               /\ ~CycleReachable(stores, last'.key))
              => last'.exc = NoExc
    ]_vars

\* the first build() of a factory fails with the cycle error on a graph
\* without cycles
C37_DiamondRejected ==
    /\ last.op = "build"
    /\ CycleError(last.exc)
    /\ built_stores = ReachFrom(stores, {last.key})
    /\ OnCycle(stores) = {}
    /\ WellFormedFrom(stores, last.key)


-----------------------------------------------------------------------------
(* A key-transforming or validating store over a DictStore that other      *)
(* writers share: it holds any of a few keys, written through the          *)
(* decorator or not.                                                        *)

\* "k" bare, "k" behind the prefix "p/", "k" behind the first digit of its
\* digest, "k" behind a digit that is not its digest's, and a key that is no
\* URL
SharedKeys ==
    {<<"k">>, <<"p", "/", "k">>,
     TakeFirst(hexdigest(<<"k">>), 1) \o <<"/", "k">>,
     <<"0", "/", "k">>, <<"%", "2", "0">>}

SharedStores ==
    {DictStore([key \in D |-> "v1"]) : D \in SUBSET SharedKeys}

SharedStacks ==
    UNION {Transforming(s) \cup Validating(s) : s \in SharedStores}

SharedInit ==
    /\ key_store \in SharedStacks
    /\ scoped = NoStore
    /\ last = NoCall
    /\ tasks = <<>>
    /\ decorator = NoStore
    /\ from_store = NoStore
    /\ to_store = NoStore
    /\ stores = <<>>
    /\ built_stores = {}
    /\ registry = STORES
    /\ environ = <<>>
    /\ children = <<>>
    /\ main_store = DictStore(<<>>)
    /\ cache_store = DictStore(<<>>)
    /\ notifying_store = NoStore

SpecSharedKeys == SharedInit /\ [][KeyNext]_vars


-----------------------------------------------------------------------------
(* keys() of PrefixStore and HashPrefixStore over a shared child.          *)

PrefixClasses == {"PrefixStore", "HashPrefixStore"}

\* exists(key) is true and get(key) returns, through the store self
Readable(self, key) ==
    /\ KExists(self, key).ret = TRUE
    /\ KGet(self, key).exc = NoExc

\* every key of the child is what the store makes of some key
OwnKeysOnly(self) ==
    \A key \in DOMAIN Contents(self.store) :
        transform_key(self, reverse_transform_key(self, key)).ret = key

\* C38: for a PrefixStore or a HashPrefixStore over a child in any state,
\* also one holding keys that were not written through the store, every key
\* that keys() yields exists and can be read through the same store.
C38_PrefixKeysSound ==
    (/\ Returned("keys")
     /\ key_store.cls \in PrefixClasses)
        => \A key \in last.ret : Readable(key_store, key)

\* what holds of the code: keys() yields readable keys when every key of
\* the child has the form the store gives its keys
C38_OwnKeysSound ==
    (/\ Returned("keys")
     /\ key_store.cls \in PrefixClasses
     /\ OwnKeysOnly(key_store))
        => \A key \in last.ret : Readable(key_store, key)

\* keys() of a store with a prefix has yielded a key over a child that
\* holds only keys of the store's form
C38_OwnKeysListed ==
    /\ Returned("keys")
    /\ key_store.cls \in PrefixClasses
    /\ OwnKeysOnly(key_store)
    /\ key_store.cls = "PrefixStore" => key_store.prefix # <<>>
    /\ key_store.cls = "HashPrefixStore" => key_store.hash_length > 0
    /\ last.ret # {}


-----------------------------------------------------------------------------
(* keys() of a validating store over a shared child.                       *)

\* C39: keys() of a KeyValidatingStore (and of its subclasses) makes one
\* call, the child's keys(), never raises on account of the validator and
\* yields every key of the child unchanged, the keys the validator refuses
\* included; get, exists and delete of a key the validator refuses raise the
\* validator's exception before the child is called.
C39_ValidationForwardOnly ==
    (last.op # "none" /\ key_store.cls \in ValidatingClasses) =>
        /\ last.op = "keys" =>
              /\ last.exc = NoExc
              /\ last.ret = DOMAIN Contents(key_store.store)
              /\ last.calls = <<KCall(key_store.store, "keys", PyNone)>>
        /\ (last.op \in {"get", "exists", "delete"}
              /\ Rejects(key_store, last.key)) =>
              /\ last.exc = validator(key_store, last.key)
              /\ last.calls = <<>>
              /\ key_store = last.before

\* keys() has yielded a key that the validator refuses
C39_Witness ==
    /\ Returned("keys")
    /\ key_store.cls \in ValidatingClasses
    /\ \E key \in last.ret : Rejects(key_store, key)

\* get of a key that the child holds and the validator refuses has raised
C39_RefusedOnGet ==
    /\ last.op = "get"
    /\ key_store.cls \in ValidatingClasses
    /\ Holds(key_store.store, last.key)
    /\ Rejects(key_store, last.key)
    /\ last.exc # NoExc


-----------------------------------------------------------------------------
(* The two flavours side by side.  Each call is made on the blocking store *)
(* and, from the same child states, awaited on its concurrent twin with no *)
(* other coroutine running; both outcomes are kept.  A child of the        *)
(* concurrent flavour answers an awaited call as its blocking twin answers *)
(* the call (AsyncSqliteStore, AsyncFilesystemStore and AsyncHashdirStore  *)
(* follow SqliteStore, FilesystemStore and HashdirStore).                  *)

\* what a call has given: its exception, its result, the stores after it
Given(exc, ret, after) == [exc |-> exc, ret |-> ret, after |-> after]

MirrorGiven(r) == Given(r.exc, r.ret, r.children)
CacheGiven(r) == Given(r.exc, r.ret, <<r.main_store, r.cache_store>>)
UtilityGiven(r) == Given(r.exc, r.ret, <<r.from_store, r.to_store>>)

\* the keys an async generator has yielded, as a set
Drained(r) ==
    IF r.exc # NoExc THEN r
    ELSE [r EXCEPT !.ret = {r.ret[i] : i \in DOMAIN r.ret}]

FlavorOps == {"put", "get", "exists", "delete", "keys"}

FlavorKeys(op) == IF op \in {"keys"} THEN {PyNone} ELSE Keys
FlavorData(op) == IF op = "put" THEN Data ELSE {PyNone}

MirroringStore_call(ch, op, key, data) ==
    IF op = "put" THEN MirroringStore_put(ch, key, data)
    ELSE IF op = "get" THEN MirroringStore_get(ch, key)
    ELSE IF op = "exists" THEN MirroringStore_exists(ch, key)
    ELSE IF op = "delete" THEN MirroringStore_delete(ch, key)
    ELSE MirroringStore_keys(ch)

AsyncFanoutStore_call(ch, op, key, data) ==
    IF op = "keys"
    THEN LET k == keys_loop(ch, 1, {}, <<>>)
             order == IF k.exc = NoExc
                      THEN CHOOSE o \in SetOrders(k.ret) : TRUE ELSE <<>>
         IN  Drained(AsyncFanoutStore_keys(ch, order))
    ELSE AwaitFanout(FanoutCoroutine(op, key, data), ch)

CachingStore_call(main, cache, op, key, data) ==
    IF op = "put" THEN CachingStore_put(main, cache, key, data)
    ELSE IF op = "get" THEN CachingStore_get(main, cache, key)
    ELSE IF op = "exists" THEN CachingStore_exists(main, cache, key)
    ELSE IF op = "delete" THEN CachingStore_delete(main, cache, key)
    ELSE IF op = "keys" THEN CachingStore_keys(main, cache)
    ELSE CachingStore_clear(main, cache, key)

FlavorChildren ==
    UNION {[1..n -> ChildStores] : n \in 1..(MaxChildren - 1)}

Sources == {DictStore(d) : d \in Dicts}
Targets == Sources \cup {HashdirStore(s) : s \in Sources}

FlavorInit ==
    /\ \/ /\ children \in FlavorChildren
          /\ main_store = NoStore /\ cache_store = NoStore
          /\ from_store = NoStore /\ to_store = NoStore
       \/ /\ children = <<>>
          /\ main_store \in ChildStores /\ cache_store \in ChildStores
          /\ from_store = NoStore /\ to_store = NoStore
       \/ /\ children = <<>>
          /\ main_store = NoStore /\ cache_store = NoStore
          /\ from_store \in Sources /\ to_store \in Targets
    /\ last = NoCall
    /\ tasks = <<>>
    /\ decorator = NoStore
    /\ stores = <<>>
    /\ built_stores = {}
    /\ registry = STORES
    /\ notifying_store = NoStore
    /\ key_store = NoStore
    /\ scoped = NoStore
    /\ environ = <<>>

\* the call on, made and awaited: called is what the blocking flavour has
\* given, awaited what the concurrent one has, before the stores as the call
\* found them
FlavorLast(on, op, key, data, called, awaited) ==
    [on |-> on, op |-> op, key |-> key, data |-> data, exc |-> called.exc,
     ret |-> called.ret, calls |-> <<>>, after |-> called.after,
     awaited |-> awaited,
     before |-> [children |-> children, main_store |-> main_store,
                 cache_store |-> cache_store, from_store |-> from_store,
                 to_store |-> to_store]]

FlavorMirror ==
    /\ last.op = "none"
    /\ children # <<>>
    /\ \E op \in FlavorOps :
         \E key \in FlavorKeys(op), data \in FlavorData(op) :
           LET r == MirroringStore_call(children, op, key, data)
               a == AsyncFanoutStore_call(children, op, key, data)
           IN  /\ children' = r.children
               /\ last' = FlavorLast("MirroringStore", op, key, data,
                                     MirrorGiven(r), MirrorGiven(a))
    /\ UNCHANGED <<wrapper_vars, main_store, cache_store, stores,
                   built_stores, environ, registry, notifying_store,
                   key_store, scoped>>

FlavorCache ==
    /\ last.op = "none"
    /\ main_store # NoStore
    /\ \E op \in FlavorOps \cup {"clear"} :
         \E key \in IF op = "clear" THEN Keys \cup {PyNone} ELSE FlavorKeys(op),
            data \in FlavorData(op) :
           LET r == CachingStore_call(main_store, cache_store, op, key, data)
               a == AwaitCaching(Coroutine(op, key, data), main_store,
                                 cache_store)
           IN  /\ main_store' = r.main_store
               /\ cache_store' = r.cache_store
               /\ last' = FlavorLast("CachingStore", op, key, data,
                                     CacheGiven(r), CacheGiven(a))
    /\ UNCHANGED <<wrapper_vars, children, stores, built_stores, environ,
                   registry, notifying_store, key_store, scoped>>

FlavorSync ==
    /\ last.op = "none"
    /\ from_store # NoStore
    /\ \E delete \in BOOLEAN :
           LET r == sync_stores(from_store, to_store, delete)
               a == async_sync_stores(from_store, to_store, delete)
           IN  /\ from_store' = r.from_store
               /\ to_store' = r.to_store
               /\ last' = FlavorLast("sync_stores", "sync_stores", PyNone,
                                     delete, UtilityGiven(r), UtilityGiven(a))
    /\ UNCHANGED <<decorator, tasks, children, main_store, cache_store,
                   stores, built_stores, environ, registry, notifying_store,
                   key_store, scoped>>

FlavorReturn ==
    /\ last.op # "none"
    /\ last' = NoCall
    /\ UNCHANGED <<wrapper_vars, children, main_store, cache_store, stores,
                   built_stores, environ, registry, notifying_store,
                   key_store, scoped>>

FlavorNext ==
    \/ FlavorMirror
    \/ FlavorCache
    \/ FlavorSync
    \/ FlavorReturn

SpecFlavors == FlavorInit /\ [][FlavorNext]_vars


-----------------------------------------------------------------------------
(* The blocking and the concurrent flavour, one operation at a time.       *)

\* the call has given the same in both flavours: the same exception or the
\* same result, and the same child stores afterwards
SameGiven ==
    /\ last.exc.type = last.awaited.exc.type
    /\ last.exc.arg = last.awaited.exc.arg
    /\ last.exc = NoExc => last.ret = last.awaited.ret
    /\ last.after = last.awaited.after

\* C40: from the same child states, each operation of a sequence gives the
\* same in both flavours -- MirroringStore and AsyncFanoutStore,
\* CachingStore and AsyncCachingStore (clear included), sync_stores and
\* async_sync_stores (delete or not): the same result or the same error,
\* and the same child stores afterwards.
C40_FlavorsAgree == last.op # "none" => SameGiven

\* what holds of the code: the decorators agree
C40_DecoratorsAgree ==
    (last.op # "none" /\ last.on # "sync_stores") => SameGiven

\* and so do sync_stores and async_sync_stores when the target lists its keys
C40_SyncAgreesOverListableTarget ==
    (/\ last.op = "sync_stores"
     /\ StoreKeys(to_store).exc = NoExc)
        => SameGiven

\* sync_stores has raised where async_sync_stores has copied an object
C40_Diverged ==
    /\ last.op = "sync_stores"
    /\ last.exc.type = "NotImplementedError"
    /\ last.awaited.exc = NoExc
    /\ last.awaited.after # last.after

\* a clear() has emptied a cache of two keys in both flavours
C40_ClearedBoth ==
    /\ last.op = "clear"
    /\ last.key = PyNone
    /\ SameGiven
    /\ DOMAIN Contents(last.before.cache_store) = Keys
    /\ DOMAIN Contents(cache_store) = {}

====
